---- MODULE Spec2Model ----
(***************************************************************************)
(* A model of MR.ZPAYTZO: the diphone synthesizer (diphone_synthesizer.py) *)
(* and the vintage processing chains (vintage_dsp.py,                      *)
(* enhanced_vintage_dsp.py) with the configuration manager that feeds      *)
(* them (config_manager.py).                                               *)
(*                                                                         *)
(* Durations are kept in milliseconds (0.08 s = 80) and phoneme symbols,   *)
(* diphone names and pause markers are the strings of the source.          *)
(***************************************************************************)
EXTENDS Integers, Sequences, FiniteSets, TLC

VARIABLES
    syn_sample_rate,  \* DiphoneSynthesizer.sample_rate
    syn_phoneme_durations,    \* DiphoneSynthesizer.phoneme_durations and
    syn_formant_frequencies,  \* .formant_frequencies: the entries of the
                              \* phonemes the inputs are drawn from
    syn_call,         \* the last method called on the synthesizer
    syn_phonemes,     \* the argument of that call
    syn_diphones,     \* the diphone list _phonemes_to_diphones returned
    syn_segments,     \* one record per segment appended to audio_segments
    syn_buffer_len,   \* the length of the buffer handed to _apply_vintage_processing
    syn_audio_len,    \* len() of the buffer synthesize returned
    syn_contours,     \* the six contours _formant_synthesis generated
    dsp,              \* the fields of the VintageDSP / EnhancedVintageDSP object
    dsp_call,         \* the last method called on it
    dsp_audio,        \* the buffer passed to that call
    dsp_noise,        \* the outcome of the random draws of that call
    dsp_result,       \* what the call returned or raised
    dsp_stages,       \* the stages the call entered, in order, when it is process
    uint8_wraps,      \* the build wraps an out-of-range float cast to uint8
    cm_current_config,     \* ConfigManager.current_config
    cm_available_presets,  \* ConfigManager.available_presets
    cm_alias,              \* section |-> the preset whose stored section dict is
                           \* the very object current_config holds for it
    cm_call,               \* the last ConfigManager method called
    cm_ret,                \* what that call returned
    out,              \* the fields of the AudioOutput / EnhancedAudioOutput object
    out_workers,      \* its playback threads that have not finished
    out_call,         \* the last method called on it, with its arguments
    out_ret,          \* what that call did or returned
    text_call,        \* the last call of the text front end
    text_input,       \* the raw text given to TextProcessor.normalize
    text_normalized,  \* the string normalize returned
    text_phonemes     \* the list PhonemeConverter.convert returned

synVars == <<syn_sample_rate, syn_phoneme_durations, syn_formant_frequencies,
             syn_call, syn_phonemes, syn_diphones,
             syn_segments, syn_buffer_len, syn_audio_len, syn_contours>>

dspVars == <<dsp, dsp_call, dsp_audio, dsp_noise, dsp_result, dsp_stages,
             uint8_wraps>>

cmVars == <<cm_current_config, cm_available_presets, cm_alias, cm_call, cm_ret>>

outVars == <<out, out_workers, out_call, out_ret>>

textVars == <<text_call, text_input, text_normalized, text_phonemes>>

vars == <<synVars, dspVars, cmVars, outVars, textVars>>

(***************************************************************************)
(* Bounds of the model.                                                    *)
(***************************************************************************)
MaxPhonemes == 3

\* Sample rates a synthesizer is constructed with (valid range 8000..48000).
SampleRates == {11025, 22050}

\* Symbols the inputs are drawn from: two table phonemes, the unknown symbol
\* XX and two pause markers.
Symbols == {"AE", "N", "XX", "<PAUSE_SHORT>", "<PAUSE_LONG>"}

RECURSIVE SeqsUpTo(_, _)
SeqsUpTo(S, n) ==
    IF n = 0 THEN {<<>>}
    ELSE LET shorter == SeqsUpTo(S, n - 1)
         IN  shorter \cup {Append(s, x) : s \in {t \in shorter : Len(t) = n - 1}, x \in S}

PhonemeInputs == SeqsUpTo(Symbols, MaxPhonemes)

(***************************************************************************)
(* Python string helpers used by the synthesizer.                          *)
(***************************************************************************)
\* str.startswith
StartsWith(s, prefix) ==
    Len(s) >= Len(prefix) /\ SubSeq(s, 1, Len(prefix)) = prefix

\* `sub in s`
Contains(s, sub) ==
    \E i \in 1..(Len(s) - Len(sub) + 1) : SubSeq(s, i, i + Len(sub) - 1) = sub

\* str.find, 1-based; 0 when absent
RECURSIVE IndexOf(_, _, _)
IndexOf(s, c, i) ==
    IF i > Len(s) THEN 0
    ELSE IF SubSeq(s, i, i) = c THEN i
    ELSE IndexOf(s, c, i + 1)

IsPause(p) == StartsWith(p, "<PAUSE")

RECURSIVE SumSeq(_)
SumSeq(s) == IF s = <<>> THEN 0 ELSE Head(s) + SumSeq(Tail(s))

(***************************************************************************)
(* DiphoneSynthesizer tables.                                              *)
(***************************************************************************)
\* _load_phoneme_durations, in milliseconds
PhonemeDurations ==
    [AA |-> 120, AE |-> 100, AH |-> 80, AO |-> 120, AW |-> 140, AY |-> 140,
     EH |-> 100, ER |-> 120, EY |-> 140, IH |-> 80, IY |-> 120, OW |-> 140,
     OY |-> 140, UH |-> 80, UW |-> 120,
     B |-> 60, CH |-> 80, D |-> 40, DH |-> 60, F |-> 80, G |-> 60,
     HH |-> 60, JH |-> 80, K |-> 60, L |-> 60, M |-> 60, N |-> 60,
     NG |-> 80, P |-> 60, R |-> 60, S |-> 80, SH |-> 80, T |-> 40,
     TH |-> 80, V |-> 60, W |-> 60, Y |-> 60, Z |-> 60, ZH |-> 80,
     SIL |-> 20]

\* base_duration = 0.08
BaseDurationMs == 80

\* _load_formant_frequencies: the formant frequencies (Hz) and amplitudes of
\* each phoneme, every value in hundredths
FormantFrequencies ==
    [AA |-> [F1 |-> 73000, F2 |-> 109000, F3 |-> 244000, A1 |-> 100, A2 |-> 60, A3 |-> 30],
     AE |-> [F1 |-> 66000, F2 |-> 172000, F3 |-> 241000, A1 |-> 100, A2 |-> 80, A3 |-> 30],
     AH |-> [F1 |-> 52000, F2 |-> 119000, F3 |-> 239000, A1 |-> 100, A2 |-> 50, A3 |-> 20],
     AO |-> [F1 |-> 57000, F2 |-> 84000, F3 |-> 241000, A1 |-> 100, A2 |-> 40, A3 |-> 20],
     EH |-> [F1 |-> 53000, F2 |-> 184000, F3 |-> 248000, A1 |-> 100, A2 |-> 70, A3 |-> 30],
     ER |-> [F1 |-> 49000, F2 |-> 135000, F3 |-> 169000, A1 |-> 100, A2 |-> 60, A3 |-> 40],
     IH |-> [F1 |-> 39000, F2 |-> 199000, F3 |-> 255000, A1 |-> 100, A2 |-> 80, A3 |-> 30],
     IY |-> [F1 |-> 27000, F2 |-> 229000, F3 |-> 301000, A1 |-> 100, A2 |-> 90, A3 |-> 40],
     OW |-> [F1 |-> 57000, F2 |-> 84000, F3 |-> 241000, A1 |-> 100, A2 |-> 40, A3 |-> 20],
     UH |-> [F1 |-> 44000, F2 |-> 102000, F3 |-> 224000, A1 |-> 100, A2 |-> 40, A3 |-> 20],
     UW |-> [F1 |-> 30000, F2 |-> 87000, F3 |-> 224000, A1 |-> 100, A2 |-> 30, A3 |-> 20],
     AY |-> [F1 |-> 66000, F2 |-> 172000, F3 |-> 241000, A1 |-> 100, A2 |-> 80, A3 |-> 30],
     AW |-> [F1 |-> 73000, F2 |-> 109000, F3 |-> 244000, A1 |-> 100, A2 |-> 60, A3 |-> 30],
     EY |-> [F1 |-> 53000, F2 |-> 184000, F3 |-> 248000, A1 |-> 100, A2 |-> 70, A3 |-> 30],
     OY |-> [F1 |-> 57000, F2 |-> 84000, F3 |-> 241000, A1 |-> 100, A2 |-> 40, A3 |-> 20],
     B |-> [F1 |-> 20000, F2 |-> 100000, F3 |-> 250000, A1 |-> 30, A2 |-> 20, A3 |-> 10],
     D |-> [F1 |-> 20000, F2 |-> 170000, F3 |-> 260000, A1 |-> 30, A2 |-> 20, A3 |-> 10],
     G |-> [F1 |-> 20000, F2 |-> 140000, F3 |-> 220000, A1 |-> 30, A2 |-> 20, A3 |-> 10],
     P |-> [F1 |-> 20000, F2 |-> 100000, F3 |-> 250000, A1 |-> 10, A2 |-> 10, A3 |-> 5],
     T |-> [F1 |-> 20000, F2 |-> 170000, F3 |-> 260000, A1 |-> 10, A2 |-> 10, A3 |-> 5],
     K |-> [F1 |-> 20000, F2 |-> 140000, F3 |-> 220000, A1 |-> 10, A2 |-> 10, A3 |-> 5],
     M |-> [F1 |-> 25000, F2 |-> 100000, F3 |-> 220000, A1 |-> 80, A2 |-> 30, A3 |-> 20],
     N |-> [F1 |-> 25000, F2 |-> 170000, F3 |-> 260000, A1 |-> 80, A2 |-> 30, A3 |-> 20],
     NG |-> [F1 |-> 25000, F2 |-> 140000, F3 |-> 220000, A1 |-> 80, A2 |-> 30, A3 |-> 20],
     L |-> [F1 |-> 40000, F2 |-> 120000, F3 |-> 260000, A1 |-> 90, A2 |-> 50, A3 |-> 30],
     R |-> [F1 |-> 30000, F2 |-> 130000, F3 |-> 160000, A1 |-> 90, A2 |-> 50, A3 |-> 40],
     W |-> [F1 |-> 30000, F2 |-> 87000, F3 |-> 224000, A1 |-> 80, A2 |-> 30, A3 |-> 20],
     Y |-> [F1 |-> 27000, F2 |-> 229000, F3 |-> 301000, A1 |-> 80, A2 |-> 70, A3 |-> 30],
     F |-> [F1 |-> 20000, F2 |-> 100000, F3 |-> 400000, A1 |-> 20, A2 |-> 30, A3 |-> 80],
     V |-> [F1 |-> 20000, F2 |-> 100000, F3 |-> 400000, A1 |-> 40, A2 |-> 40, A3 |-> 60],
     TH |-> [F1 |-> 20000, F2 |-> 140000, F3 |-> 450000, A1 |-> 20, A2 |-> 30, A3 |-> 80],
     DH |-> [F1 |-> 20000, F2 |-> 140000, F3 |-> 450000, A1 |-> 40, A2 |-> 40, A3 |-> 60],
     S |-> [F1 |-> 20000, F2 |-> 200000, F3 |-> 600000, A1 |-> 10, A2 |-> 50, A3 |-> 100],
     Z |-> [F1 |-> 20000, F2 |-> 200000, F3 |-> 600000, A1 |-> 30, A2 |-> 60, A3 |-> 80],
     SH |-> [F1 |-> 20000, F2 |-> 120000, F3 |-> 400000, A1 |-> 10, A2 |-> 30, A3 |-> 90],
     ZH |-> [F1 |-> 20000, F2 |-> 120000, F3 |-> 400000, A1 |-> 30, A2 |-> 40, A3 |-> 70],
     CH |-> [F1 |-> 20000, F2 |-> 120000, F3 |-> 400000, A1 |-> 10, A2 |-> 30, A3 |-> 80],
     JH |-> [F1 |-> 20000, F2 |-> 120000, F3 |-> 400000, A1 |-> 30, A2 |-> 40, A3 |-> 60],
     HH |-> [F1 |-> 30000, F2 |-> 150000, F3 |-> 300000, A1 |-> 30, A2 |-> 20, A3 |-> 10],
     SIL |-> [F1 |-> 0, F2 |-> 0, F3 |-> 0, A1 |-> 0, A2 |-> 0, A3 |-> 0]]

\* mutant: a symbol without an entry gets the formants of silence
DefaultFormantsSilent ==
    [F1 |-> 0, F2 |-> 0, F3 |-> 0, A1 |-> 0, A2 |-> 0, A3 |-> 0]

\* _get_default_formants, in hundredths
DefaultFormants == [F1 |-> 50000, F2 |-> 150000, F3 |-> 250000, A1 |-> 50, A2 |-> 30, A3 |-> 10]

FormantKeys == {"F1", "F2", "F3", "A1", "A2", "A3"}

\* the phonemes the diphone names and utterances of the model are made of;
\* XX is in neither table
DiphonePhonemes == {"AE", "N", "IY", "S", "SIL", "XX"}

\* self.phoneme_durations and self.formant_frequencies as __init__ loads
\* them, over the phonemes above
LoadedDurations ==
    [p \in DiphonePhonemes \cap DOMAIN PhonemeDurations |-> PhonemeDurations[p]]

LoadedFormants ==
    [p \in DiphonePhonemes \cap DOMAIN FormantFrequencies |-> FormantFrequencies[p]]

(***************************************************************************)
(* DiphoneSynthesizer._phonemes_to_diphones                                *)
(***************************************************************************)
\* the unit appended for the adjacent pair (phonemes[i], phonemes[i+1])
PairUnit(current_phoneme, next_phoneme) ==
    IF IsPause(current_phoneme) \/ IsPause(next_phoneme)
    THEN current_phoneme
    ELSE current_phoneme \o "-" \o next_phoneme

\* mutant: the trailing transition to silence is left out
phonemes_to_diphones_no_final(phonemes) ==
    (IF phonemes # <<>> /\ ~IsPause(phonemes[1])
     THEN <<"SIL-" \o phonemes[1]>> ELSE <<>>)
    \o [i \in 1..(Len(phonemes) - 1) |-> PairUnit(phonemes[i], phonemes[i + 1])]

phonemes_to_diphones(phonemes) ==
    (IF phonemes # <<>> /\ ~IsPause(phonemes[1])
     THEN <<"SIL-" \o phonemes[1]>> ELSE <<>>)
    \o [i \in 1..(Len(phonemes) - 1) |-> PairUnit(phonemes[i], phonemes[i + 1])]
    \o (IF phonemes # <<>> /\ ~IsPause(phonemes[Len(phonemes)])
        THEN <<phonemes[Len(phonemes)] \o "-SIL">> ELSE <<>>)

(***************************************************************************)
(* DiphoneSynthesizer._synthesize_diphone: parsing and segment length      *)
(***************************************************************************)
\* diphone.split('-', 1), or start = end = diphone when there is no '-'
ParseDiphone(diphone) ==
    LET k == IndexOf(diphone, "-", 1)
    IN  IF k > 0
        THEN [start |-> SubSeq(diphone, 1, k - 1),
              end   |-> SubSeq(diphone, k + 1, Len(diphone))]
        ELSE [start |-> diphone, end |-> diphone]

\* mutant: the duration is looked up from the end phoneme
get_diphone_duration_by_end(phoneme_durations, start_phoneme, end_phoneme) ==
    IF start_phoneme = "SIL" \/ end_phoneme = "SIL"
    THEN (BaseDurationMs * 5) \div 10
    ELSE IF end_phoneme \in DOMAIN phoneme_durations
         THEN phoneme_durations[end_phoneme]
         ELSE BaseDurationMs

\* mutant: a silence transition takes half of the start phoneme's duration
get_diphone_duration_half_table(phoneme_durations, start_phoneme, end_phoneme) ==
    LET d == IF start_phoneme \in DOMAIN phoneme_durations
             THEN phoneme_durations[start_phoneme]
             ELSE BaseDurationMs
    IN  IF start_phoneme = "SIL" \/ end_phoneme = "SIL"
        THEN (d * 5) \div 10
        ELSE d

\* _get_diphone_duration, in milliseconds; phoneme_durations is the
\* self.phoneme_durations it reads
get_diphone_duration(phoneme_durations, start_phoneme, end_phoneme) ==
    IF start_phoneme = "SIL" \/ end_phoneme = "SIL"
    THEN (BaseDurationMs * 5) \div 10
    ELSE IF start_phoneme \in DOMAIN phoneme_durations
         THEN phoneme_durations[start_phoneme]
         ELSE BaseDurationMs

\* _get_pause_duration, in milliseconds
get_pause_duration(pause_marker) ==
    IF Contains(pause_marker, "LONG") THEN 500
    ELSE IF Contains(pause_marker, "MEDIUM") THEN 300
    ELSE IF Contains(pause_marker, "SHORT") THEN 200
    ELSE 300

\* round(ms * rate / 1000) to nearest, ties to even (Python's round)
RoundNearest(ms, rate) ==
    LET q == (ms * rate) \div 1000
        r == (ms * rate) % 1000
    IN  IF r > 500 \/ (r = 500 /\ q % 2 = 1) THEN q + 1 ELSE q

\* mutant: the sample count is rounded to nearest
NumSamplesRounded(ms, rate) == RoundNearest(ms, rate)

\* int(duration * self.sample_rate): truncation
NumSamples(ms, rate) == (ms * rate) \div 1000

\* the segment _synthesize_diphone returns for one diphone name
synthesize_diphone(phoneme_durations, diphone, rate) ==
    LET d   == ParseDiphone(diphone)
        dur == get_diphone_duration(phoneme_durations, d.start, d.end)
    IN  [unit |-> diphone, pause |-> FALSE, start |-> d.start, end |-> d.end,
         duration |-> dur, n |-> NumSamples(dur, rate)]

\* the silence synthesize appends for a pause marker
PauseSegment(marker, rate) ==
    [unit |-> marker, pause |-> TRUE, start |-> marker, end |-> marker,
     duration |-> get_pause_duration(marker),
     n |-> NumSamples(get_pause_duration(marker), rate)]

\* _apply_vintage_processing: length of the buffer it returns.  np.convolve
\* with mode='same' returns max(len(audio), kernel_size) samples.
apply_vintage_processing_len(n) ==
    IF n = 0 THEN 0
    ELSE IF n > 1 THEN (IF n >= 3 THEN n ELSE 3)
    ELSE n

\* the audio_segments list synthesize builds
SynthSegments(phoneme_durations, phonemes, rate) ==
    LET diphones == phonemes_to_diphones(phonemes)
    IN  [k \in 1..Len(diphones) |->
            IF IsPause(diphones[k])
            THEN PauseSegment(diphones[k], rate)
            ELSE synthesize_diphone(phoneme_durations, diphones[k], rate)]

\* The results of a synthesizer with the tables as loaded, over the bounded
\* inputs, evaluated once.
SegmentsOf == [rate \in SampleRates |->
                  [phonemes \in PhonemeInputs |->
                      SynthSegments(LoadedDurations, phonemes, rate)]]

DiphonesOf == [phonemes \in PhonemeInputs |-> phonemes_to_diphones(phonemes)]

\* dict.get(key, default)
DictGet(d, key, default) == IF key \in DOMAIN d THEN d[key] ELSE default

\* mutant: np.linspace(start, stop, num, endpoint=False)
linspace_open(start, stop, num) ==
    [k \in 1..num |->
        start + (2 * (k - 1) * (stop - start) + num) \div (2 * num)]

\* np.linspace(start, stop, num): num evenly spaced samples, the last one
\* stop itself; a single sample is start
linspace(start, stop, num) ==
    [k \in 1..num |->
        IF num = 1 THEN start
        ELSE IF k = num THEN stop
        ELSE start + (2 * (k - 1) * (stop - start) + (num - 1))
                         \div (2 * (num - 1))]

\* no contour was generated
NoContours == [f \in FormantKeys |-> <<>>]

\* _formant_synthesis: the contours f1, f2, f3, a1, a2, a3 over len(t) samples
formant_contours(num_samples, start_formants, end_formants) ==
    IF num_samples = 0 THEN NoContours
    ELSE [f \in FormantKeys |->
             linspace(start_formants[f], end_formants[f], num_samples)]

\* _synthesize_diphone: the contours generated for one diphone name
diphone_contours(self, diphone) ==
    LET d == ParseDiphone(diphone)
        start_formants == DictGet(self.formant_frequencies, d.start, DefaultFormants)
        end_formants   == DictGet(self.formant_frequencies, d.end, DefaultFormants)
        duration    == get_diphone_duration(self.phoneme_durations, d.start, d.end)
        num_samples == NumSamples(duration, self.sample_rate)
    IN  IF num_samples <= 0 THEN NoContours
        ELSE formant_contours(num_samples, start_formants, end_formants)

\* the diphone names _synthesize_diphone is called with on its own: every
\* pair of the phonemes, and each of them alone
DiphoneNames ==
    {a \o "-" \o b : a \in DiphonePhonemes, b \in DiphonePhonemes}
        \cup DiphonePhonemes

\* the fields of a synthesizer as __init__ leaves them
DiphoneSynthesizer(sample_rate) ==
    [sample_rate |-> sample_rate,
     phoneme_durations |-> LoadedDurations,
     formant_frequencies |-> LoadedFormants]

\* the sample rates of the synthesizers _synthesize_diphone is called on
FormantRates == SampleRates \cup {8000}

\* The contours of a synthesizer with the tables as loaded, evaluated once.
ContoursOf == [rate \in FormantRates |->
                  [diphone \in DiphoneNames |->
                      diphone_contours(DiphoneSynthesizer(rate), diphone)]]

\* the fields of the synthesizer when synthesize returns: none of the
\* methods it calls assigns an attribute or changes a table in place
synthesize_fields(self, phonemes) == self

(***************************************************************************)
(* Synthesizer operations.                                                 *)
(***************************************************************************)
\* the synthesizer object
SynSelf ==
    [sample_rate |-> syn_sample_rate,
     phoneme_durations |-> syn_phoneme_durations,
     formant_frequencies |-> syn_formant_frequencies]

\* the synthesizer object is self after the step
SynFieldsBecome(self) ==
    /\ syn_sample_rate' = self.sample_rate
    /\ syn_phoneme_durations' = self.phoneme_durations
    /\ syn_formant_frequencies' = self.formant_frequencies

SynFieldsUnchanged ==
    UNCHANGED <<syn_sample_rate, syn_phoneme_durations, syn_formant_frequencies>>

SynInit ==
    /\ syn_sample_rate = 22050
    /\ syn_phoneme_durations = LoadedDurations
    /\ syn_formant_frequencies = LoadedFormants
    /\ syn_call = "init"
    /\ syn_phonemes = <<>>
    /\ syn_diphones = <<>>
    /\ syn_segments = <<>>
    /\ syn_buffer_len = 0
    /\ syn_audio_len = 0
    /\ syn_contours = NoContours

\* DiphoneSynthesizer(sample_rate)
NewSynthesizer(rate) ==
    /\ syn_sample_rate' = rate
    /\ syn_phoneme_durations' = LoadedDurations
    /\ syn_formant_frequencies' = LoadedFormants
    /\ syn_call' = "init"
    /\ syn_phonemes' = <<>>
    /\ syn_diphones' = <<>>
    /\ syn_segments' = <<>>
    /\ syn_buffer_len' = 0
    /\ syn_audio_len' = 0
    /\ syn_contours' = NoContours
    /\ UNCHANGED <<dspVars, cmVars, outVars, textVars>>

\* synthesize(phonemes)
Synthesize(phonemes) ==
    /\ syn_call' = "synthesize"
    /\ syn_phonemes' = phonemes
    /\ IF phonemes = <<>>
       THEN /\ syn_diphones' = <<>>
            /\ syn_segments' = <<>>
            /\ syn_buffer_len' = 0
            /\ syn_audio_len' = 0
       ELSE LET audio_segments ==
                    IF syn_phoneme_durations = LoadedDurations
                    THEN SegmentsOf[syn_sample_rate][phonemes]
                    ELSE SynthSegments(syn_phoneme_durations, phonemes,
                                       syn_sample_rate)
            IN  /\ syn_diphones' = [k \in 1..Len(audio_segments) |-> audio_segments[k].unit]
                /\ syn_segments' = audio_segments
                /\ syn_buffer_len' =
                       SumSeq([k \in 1..Len(audio_segments) |-> audio_segments[k].n])
                /\ syn_audio_len' = apply_vintage_processing_len(syn_buffer_len')
    /\ syn_contours' = NoContours
    /\ SynFieldsBecome(synthesize_fields(SynSelf, phonemes))
    /\ UNCHANGED <<dspVars, cmVars, outVars, textVars>>

\* _phonemes_to_diphones(phonemes) called on its own
PhonemesToDiphones(phonemes) ==
    /\ syn_call' = "phonemes_to_diphones"
    /\ syn_phonemes' = phonemes
    /\ syn_diphones' = DiphonesOf[phonemes]
    /\ syn_segments' = <<>>
    /\ syn_buffer_len' = 0
    /\ syn_audio_len' = 0
    /\ syn_contours' = NoContours
    /\ SynFieldsUnchanged
    /\ UNCHANGED <<dspVars, cmVars, outVars, textVars>>

\* the buffer lengths _apply_vintage_processing is called with on its own
BufferLens == {0, 1, 2, 3}

\* _apply_vintage_processing(audio) called on its own, len(audio) = n
ApplyVintageProcessing(n) ==
    /\ syn_call' = "_apply_vintage_processing"
    /\ syn_phonemes' = <<>>
    /\ syn_diphones' = <<>>
    /\ syn_segments' = <<>>
    /\ syn_buffer_len' = n
    /\ syn_audio_len' = apply_vintage_processing_len(n)
    /\ syn_contours' = NoContours
    /\ SynFieldsUnchanged
    /\ UNCHANGED <<dspVars, cmVars, outVars, textVars>>

\* _synthesize_diphone(diphone) called on its own
SynthesizeDiphone(diphone) ==
    LET segment == synthesize_diphone(syn_phoneme_durations, diphone,
                                      syn_sample_rate)
    IN  /\ syn_call' = "_synthesize_diphone"
        /\ syn_phonemes' = <<>>
        /\ syn_diphones' = <<diphone>>
        /\ syn_segments' = <<segment>>
        /\ syn_buffer_len' = 0
        /\ syn_audio_len' = segment.n
        /\ syn_contours' =
               IF syn_sample_rate \in FormantRates
                  /\ SynSelf = DiphoneSynthesizer(syn_sample_rate)
               THEN ContoursOf[syn_sample_rate][diphone]
               ELSE diphone_contours(SynSelf, diphone)
        /\ SynFieldsUnchanged
        /\ UNCHANGED <<dspVars, cmVars, outVars, textVars>>

SynNext ==
    \/ \E rate \in SampleRates : NewSynthesizer(rate)
    \/ \E phonemes \in PhonemeInputs : Synthesize(phonemes)
    \/ \E phonemes \in PhonemeInputs : PhonemesToDiphones(phonemes)
    \/ \E n \in BufferLens : ApplyVintageProcessing(n)

(***************************************************************************)
(* Fixed-point arithmetic of the signal chain.  A float x of the source is *)
(* held as the integer round(x * Scale); frequencies are in Hz, angles in  *)
(* radians times Scale.  A buffer is a sequence of such integers.  A call  *)
(* returns [err, x]: err is "" and x the buffer, or err names the Python   *)
(* exception raised.                                                       *)
(***************************************************************************)
Scale == 100 * 100

\* 2 * np.pi and its fractions, times Scale
TwoPi == 62832
Pi == 31416
HalfPi == 15708

Ok(x) == [err |-> "", x |-> x]
Raise(e) == [err |-> e, x |-> <<>>]
\* the next statement runs only when the one before raised nothing
Then(r, F(_)) == IF r.err # "" THEN r ELSE F(r.x)

Abs(x) == IF x < 0 THEN -x ELSE x
\* np.sign
Sign(x) == IF x > 0 THEN 1 ELSE IF x < 0 THEN -1 ELSE 0
\* np.clip
Clip(x, lo, hi) == IF x < lo THEN lo ELSE IF x > hi THEN hi ELSE x
Min(a, b) == IF a < b THEN a ELSE b
Max(a, b) == IF a > b THEN a ELSE b

\* n / d to the nearest integer (d > 0)
RoundDiv(n, d) == (n + d \div 2) \div d
\* the product and the quotient of two fixed-point numbers
Mul(a, b) == RoundDiv(a * b, Scale)
Div(a, b) == RoundDiv(a * Scale, b)


\* np.round(n / d): to the nearest integer, ties to the even one (d > 0)
RoundHalfEven(n, d) ==
    LET q == n \div d
        r == n % d
    IN  IF 2 * r > d THEN q + 1
        ELSE IF 2 * r = d THEN q + (q % 2)
        ELSE q

RECURSIVE Pow2(_)
Pow2(k) == IF k <= 0 THEN 1 ELSE 2 * Pow2(k - 1)

\* sum of (-f)^n / n! for n = k.. (term is f^(k-1)/(k-1)!), 0 <= f <= Scale
RECURSIVE ExpSeries(_, _, _)
ExpSeries(f, k, term) ==
    IF k > 9 \/ term = 0 THEN 0
    ELSE LET t == RoundDiv(term * f, Scale * k)
         IN  (IF k % 2 = 1 THEN -t ELSE t) + ExpSeries(f, k + 1, t)

RECURSIVE PowFix(_, _)
PowFix(b, k) == IF k = 0 THEN Scale ELSE Mul(b, PowFix(b, k - 1))

\* np.exp(-x) for x >= 0
ExpNeg(x) ==
    Mul(PowFix(Scale + ExpSeries(Scale, 1, Scale), x \div Scale),
        Scale + ExpSeries(x % Scale, 1, Scale))

\* x - x^3/3! + x^5/5! - ... for |x| <= pi/2 (term is the previous term)
RECURSIVE SinSeries(_, _, _)
SinSeries(x, k, term) ==
    IF k > 11 \/ term = 0 THEN 0
    ELSE LET t == RoundDiv(Mul(term, x) * x, Scale * (k - 1) * k)
         IN  -t + SinSeries(x, k + 2, -t)

\* np.sin and np.cos
Sin(x) ==
    LET y == x % TwoPi
        z == IF y <= HalfPi THEN y
             ELSE IF y <= Pi + HalfPi THEN Pi - y
             ELSE y - TwoPi
    IN  z + SinSeries(z, 3, z)

Cos(x) == Sin(x + HalfPi)

\* omega = 2 * np.pi * cutoff_freq / self.sample_rate
Omega(cutoff_freq, sample_rate) == RoundDiv(TwoPi * cutoff_freq, sample_rate)

\* alpha = np.exp(-omega)
Alpha(cutoff_freq, sample_rate) == ExpNeg(Omega(cutoff_freq, sample_rate))

\* A draw of np.random.uniform(-a, a), np.random.triangular(-a, 0, a) or
\* np.random.normal(0, sigma) is one of the low, middle and high outcomes
\* z = -1, 0, 1: -a, 0, a (three sigma for the normal draw).
NoiseDraws == {-1, 0, 1}
NormalSpread == 3

\* y[0] = x[0] * (1 - alpha); y[i] = alpha * y[i-1] + (1 - alpha) * x[i]
RECURSIVE OnePole(_, _, _)
OnePole(audio, alpha, n) ==
    IF n = 0 THEN <<>>
    ELSE LET prev == OnePole(audio, alpha, n - 1)
         IN  Append(prev,
                    IF n = 1 THEN Mul(audio[1], Scale - alpha)
                    ELSE Mul(alpha, prev[n - 1]) + Mul(Scale - alpha, audio[n]))

\* np.convolve(audio, np.ones(k) / k, mode='same'): max(len(audio), k) samples
\* taken from the middle of the full convolution
ConvolveSame(audio, k) ==
    LET n == Len(audio)
        m == Max(n, k)
        full(j) == LET lo == Max(1, j - k + 1)
                       hi == Min(n, j)
                   IN  SumSeq([i \in 1..(hi - lo + 1) |-> audio[lo + i - 1]])
        first == (Min(n, k) - 1) \div 2
    IN  [j \in 1..m |-> RoundDiv(full(j + first), k)]

(***************************************************************************)
(* VintageDSP (vintage_dsp.py).  self is the record of the object's fields.*)
(***************************************************************************)
\* VintageDSP.__init__
VintageDSP(sample_rate, bit_depth) ==
    [kind |-> "VintageDSP",
     sample_rate |-> sample_rate,
     bit_depth |-> bit_depth,
     quantization_levels |-> Pow2(bit_depth),
     max_frequency |-> Min(sample_rate \div 2, 11025),
     dynamic_range |-> 48,
     filter_state |-> <<0, 0, 0, 0>>]

simulate_analog_frontend(audio) ==
    Ok([i \in 1..Len(audio) |->
           audio[i] + RoundDiv(2 * Sign(audio[i]) * audio[i] * audio[i], 1000 * Scale)
                    + Scale \div 1000])

apply_vintage_antialiasing(self, audio) ==
    IF Len(audio) <= 1 THEN Ok(audio)
    ELSE Ok(OnePole(audio, Alpha(10000, self.sample_rate), Len(audio)))

\* mutant: the level is truncated instead of rounded
QuantizeTruncating(audio, max_level) ==
    [i \in 1..Len(audio) |->
        RoundDiv(((audio[i] * max_level) \div Scale) * Scale, max_level)]

\* quantized = np.round(audio * max_level) / max_level
Quantize(audio, max_level) ==
    [i \in 1..Len(audio) |->
        RoundDiv(RoundHalfEven(audio[i] * max_level, Scale) * Scale, max_level)]

apply_bit_crushing(self, audio, z) ==
    IF self.bit_depth >= 16 THEN Ok(audio)
    ELSE LET max_level == Pow2(self.bit_depth - 1) - 1
             quantized == Quantize(audio, max_level)
             noise_amplitude == RoundDiv(Scale, 2 * Pow2(self.bit_depth))
         IN  Ok([i \in 1..Len(audio) |->
                    Clip(quantized[i] + z * noise_amplitude, -Scale, Scale)])

apply_sample_rate_artifacts(self, audio) ==
    IF Len(audio) > 1
    THEN Ok([i \in 1..Len(audio) |->
                audio[i] + RoundDiv(Sin(RoundDiv(TwoPi * ((7 * (i - 1)) % 10), 10)), 1000)])
    ELSE Ok(audio)

apply_vintage_lowpass(self, audio, cutoff_freq) ==
    IF Len(audio) = 0 THEN Raise("IndexError")
    ELSE LET alpha == Alpha(cutoff_freq, self.sample_rate)
             y1 == OnePole(audio, alpha, Len(audio))
         IN  Ok(OnePole(y1, alpha, Len(y1)))

\* output[0] = audio[0];
\* output[i] = alpha * output[i-1] + alpha * (audio[i] - audio[i-1])
RECURSIVE HighPass(_, _, _)
HighPass(audio, alpha, n) ==
    IF n = 0 THEN <<>>
    ELSE LET prev == HighPass(audio, alpha, n - 1)
         IN  Append(prev,
                    IF n = 1 THEN audio[1]
                    ELSE Mul(alpha, prev[n - 1]) + Mul(alpha, audio[n] - audio[n - 1]))

apply_vintage_highpass(self, audio, cutoff_freq) ==
    IF Len(audio) <= 1 THEN Ok(audio)
    ELSE Ok(HighPass(audio, Alpha(cutoff_freq, self.sample_rate), Len(audio)))

\* output[i] = audio[i] + b * (a * cos(omega_c) * output[i-1] - a^2 * output[i-2])
RECURSIVE Peaking(_, _, _, _, _)
Peaking(audio, a, b, cos_c, n) ==
    IF n = 0 THEN <<>>
    ELSE LET prev == Peaking(audio, a, b, cos_c, n - 1)
         IN  Append(prev,
                    IF n <= 2 THEN audio[n]
                    ELSE audio[n] + Mul(b, Mul(Mul(a, cos_c), prev[n - 1])
                                           - Mul(Mul(a, a), prev[n - 2])))

apply_speech_emphasis(self, audio) ==
    LET gain == (12 * Scale) \div 10
    IN  IF Len(audio) <= 2
        THEN Ok([i \in 1..Len(audio) |-> Mul(audio[i], gain)])
        ELSE Ok(Peaking(audio, (9 * Scale) \div 10, gain - Scale,
                        Cos(Omega(3000, self.sample_rate)), Len(audio)))

apply_frequency_response_shaping(self, audio) ==
    IF Len(audio) <= 1 THEN Ok(audio)
    ELSE LET a1 == apply_vintage_lowpass(self, audio, 8000)
             a2 == Then(a1, LAMBDA a : apply_vintage_highpass(self, a, 200))
         IN  Then(a2, LAMBDA a : apply_speech_emphasis(self, a))

\* the smoothed peak envelope
RECURSIVE SmoothEnvelope(_, _, _, _)
SmoothEnvelope(audio, attack_coef, release_coef, n) ==
    IF n = 0 THEN <<>>
    ELSE LET prev == SmoothEnvelope(audio, attack_coef, release_coef, n - 1)
             e == Abs(audio[n])
         IN  Append(prev,
                    IF n = 1 THEN e
                    ELSE IF e > prev[n - 1]
                         THEN Mul(attack_coef, e) + Mul(Scale - attack_coef, prev[n - 1])
                         ELSE Mul(release_coef, e) + Mul(Scale - release_coef, prev[n - 1]))

\* audio * gain_reduction, the gain reduced where the envelope is over the
\* threshold; ratio is times Scale
Compress(audio, threshold, ratio, attack_coef, release_coef) ==
    LET smooth_envelope == SmoothEnvelope(audio, attack_coef, release_coef, Len(audio))
        gain(i) == IF smooth_envelope[i] > threshold
                   THEN Mul(Div(threshold, smooth_envelope[i]),
                            Scale + Div(smooth_envelope[i] - threshold, ratio))
                   ELSE Scale
    IN  [i \in 1..Len(audio) |-> Mul(audio[i], gain(i))]

apply_vintage_compression(audio) ==
    IF Len(audio) = 0 THEN Ok(audio)
    ELSE Ok(Compress(audio, (8 * Scale) \div 10, 4 * Scale,
                     Scale \div 10, Scale \div 1000))

apply_output_stage_processing(self, audio) ==
    LET a1 == [i \in 1..Len(audio) |->
                   audio[i] + RoundDiv(audio[i] * audio[i], 1000 * Scale)]
        a2 == IF Len(a1) > 1 THEN apply_vintage_highpass(self, a1, 20) ELSE Ok(a1)
    IN  Then(a2, LAMBDA a :
            Ok([i \in 1..Len(a) |-> Clip(RoundDiv(a[i] * 9, 10), -Scale, Scale)]))

\* VintageDSP.process
vintage_process(self, audio, z) ==
    IF Len(audio) = 0 THEN Ok(audio)
    ELSE LET a1 == simulate_analog_frontend(audio)
             a2 == Then(a1, LAMBDA a : apply_vintage_antialiasing(self, a))
             a3 == Then(a2, LAMBDA a : apply_bit_crushing(self, a, z))
             a4 == Then(a3, LAMBDA a : apply_sample_rate_artifacts(self, a))
             a5 == Then(a4, LAMBDA a : apply_frequency_response_shaping(self, a))
             a6 == Then(a5, LAMBDA a : apply_vintage_compression(a))
         IN  Then(a6, LAMBDA a : apply_output_stage_processing(self, a))

\* ((audio + 1.0) * 127.5).astype(np.uint8): the value truncated; outside
\* 0..255 the cast is undefined and the build wraps (wrap) or saturates
ToUint8(x, wrap) ==
    LET t == IF x + Scale >= 0
             THEN ((x + Scale) * 1275) \div (10 * Scale)
             ELSE -(((-(x + Scale)) * 1275) \div (10 * Scale))
    IN  IF t >= 0 /\ t <= 255 THEN t
        ELSE IF wrap THEN t % 256
        ELSE Clip(t, 0, 255)

\* 10 ** (noise_floor / 20) with noise_floor = -48, times Scale
SbNoiseAmplitude == 40

apply_sound_blaster_characteristics(self, audio, z, wrap) ==
    LET a1 == IF self.bit_depth = 8
              THEN [i \in 1..Len(audio) |->
                       RoundDiv(ToUint8(audio[i], wrap) * 10 * Scale, 1275) - Scale]
              ELSE audio
        a2 == apply_vintage_lowpass(self, a1, 11000)
    IN  Then(a2, LAMBDA a :
            Ok([i \in 1..Len(a) |-> a[i] + z * NormalSpread * SbNoiseAmplitude]))

apply_preset_vintage_effect(self, audio, preset, z, wrap) ==
    IF preset = "dr_sbaitso"
    THEN LET a1 == apply_bit_crushing(self, audio, z)
             a2 == Then(a1, LAMBDA a : apply_vintage_lowpass(self, a, 8000))
             a3 == Then(a2, LAMBDA a : apply_speech_emphasis(self, a))
         IN  Then(a3, LAMBDA a : apply_sound_blaster_characteristics(self, a, z, wrap))
    ELSE IF preset = "early_tts"
    THEN LET a1 == apply_bit_crushing(self, audio, z)
             a2 == Then(a1, LAMBDA a : apply_vintage_lowpass(self, a, 6000))
         IN  Then(a2, LAMBDA a : apply_vintage_compression(a))
    ELSE IF preset = "sound_blaster"
    THEN apply_sound_blaster_characteristics(self, audio, z, wrap)
    ELSE Ok(audio)

(***************************************************************************)
(* EnhancedVintageDSP (enhanced_vintage_dsp.py).  A configuration is a     *)
(* dict of sections, each a dict of keys; intensity is held times Scale.   *)
(***************************************************************************)
EmptyDict == [k \in {} |-> 0]

\* dict.get(key, default)
Get(d, key, default) == IF key \in DOMAIN d THEN d[key] ELSE default

\* EnhancedVintageDSP._setup_quality_parameters
setup_quality_parameters(self) ==
    LET q == IF self.bit_depth >= 16 THEN <<65536, 96, -90>>
             ELSE IF self.bit_depth >= 12 THEN <<4096, 72, -66>>
             ELSE <<256, 48, -42>>
    IN  [self EXCEPT
            !.quantization_levels = q[1],
            !.dynamic_range = q[2],
            !.noise_floor = q[3],
            !.filter_quality = Scale - self.vintage_intensity \div 2,
            !.max_frequency =
                IF self.vintage_intensity > (8 * Scale) \div 10 THEN 8000
                ELSE IF self.vintage_intensity > (5 * Scale) \div 10 THEN 11025
                ELSE Min(self.sample_rate \div 2, 16000)]

\* EnhancedVintageDSP.__init__
EnhancedVintageDSP(config) ==
    LET audio_config == Get(config, "audio", EmptyDict)
        vintage_config == Get(config, "vintage_processing", EmptyDict)
        advanced_config == Get(config, "advanced", EmptyDict)
        base == VintageDSP(Get(audio_config, "sample_rate", 22050),
                           Get(audio_config, "bit_depth", 8))
    IN  setup_quality_parameters(
          [kind |-> "EnhancedVintageDSP",
           sample_rate |-> base.sample_rate,
           bit_depth |-> base.bit_depth,
           quantization_levels |-> base.quantization_levels,
           max_frequency |-> base.max_frequency,
           dynamic_range |-> base.dynamic_range,
           filter_state |-> base.filter_state,
           noise_floor |-> 0,
           filter_quality |-> 0,
           vintage_intensity |-> Get(vintage_config, "intensity", Scale),
           vintage_enabled |-> Get(vintage_config, "enabled", TRUE),
           vintage_preset |-> Get(vintage_config, "preset", "dr_sbaitso"),
           quantization_noise |-> Get(vintage_config, "quantization_noise", TRUE),
           analog_simulation |-> Get(vintage_config, "analog_simulation", TRUE),
           frequency_response_shaping |->
               Get(vintage_config, "frequency_response_shaping", TRUE),
           spectral_enhancement |-> Get(advanced_config, "spectral_enhancement", FALSE),
           harmonic_enrichment |-> Get(advanced_config, "harmonic_enrichment", FALSE),
           noise_reduction |-> Get(advanced_config, "noise_reduction", FALSE),
           temporal_smoothing |-> Get(advanced_config, "temporal_smoothing", FALSE)])

\* EnhancedVintageDSP.update_config
update_config(self, config) ==
    LET vintage_config == Get(config, "vintage_processing", EmptyDict)
        advanced_config == Get(config, "advanced", EmptyDict)
    IN  setup_quality_parameters(
          [self EXCEPT
             !.vintage_intensity = Get(vintage_config, "intensity", self.vintage_intensity),
             !.vintage_enabled = Get(vintage_config, "enabled", self.vintage_enabled),
             !.vintage_preset = Get(vintage_config, "preset", self.vintage_preset),
             !.spectral_enhancement =
                 Get(advanced_config, "spectral_enhancement", self.spectral_enhancement),
             !.harmonic_enrichment =
                 Get(advanced_config, "harmonic_enrichment", self.harmonic_enrichment),
             !.noise_reduction =
                 Get(advanced_config, "noise_reduction", self.noise_reduction),
             !.temporal_smoothing =
                 Get(advanced_config, "temporal_smoothing", self.temporal_smoothing)])

simulate_analog_frontend_enhanced(self, audio, z) ==
    LET dc_offset == Mul(Scale \div 1000, self.vintage_intensity)
        thermal_noise_level == IF self.bit_depth <= 8
                               THEN Mul(Scale \div 10000, self.vintage_intensity)
                               ELSE 0
    IN  Ok([i \in 1..Len(audio) |->
              audio[i]
              + Mul(RoundDiv(2 * Sign(audio[i]) * audio[i] * audio[i], 1000 * Scale),
                    self.vintage_intensity)
              + dc_offset
              + z * NormalSpread * thermal_noise_level])

apply_high_quality_lowpass(self, audio, cutoff_freq) ==
    IF Len(audio) = 0 THEN Raise("IndexError")
    ELSE LET alpha == Alpha(cutoff_freq, self.sample_rate)
             y1 == OnePole(audio, alpha, Len(audio))
         IN  Ok(OnePole(y1, alpha, Len(y1)))

apply_speech_emphasis_enhanced(self, audio, gain) ==
    IF Len(audio) <= 2
    THEN Ok([i \in 1..Len(audio) |-> Mul(audio[i], gain)])
    ELSE Ok(Peaking(audio, (95 * Scale) \div 100, (gain - Scale) \div 2,
                    Cos(Omega(3000, self.sample_rate)), Len(audio)))

\* mutant: the low-pass is run at max_frequency itself
ShapingCutoffAtMax(self) == self.max_frequency

\* cutoff_freq = self.max_frequency * (1.0 - self.vintage_intensity * 0.3), in Hz
ShapingCutoff(self) ==
    RoundDiv(self.max_frequency * (Scale - (3 * self.vintage_intensity) \div 10), Scale)

\* the filters of _apply_frequency_response_shaping_enhanced, the low-pass
\* run at cutoff_freq
ShapeAt(self, audio, cutoff_freq) ==
    LET a1 == IF self.vintage_intensity < (5 * Scale) \div 10
              THEN apply_high_quality_lowpass(self, audio, cutoff_freq)
              ELSE apply_vintage_lowpass(self, audio, cutoff_freq)
        bass_cutoff == RoundDiv(200 * (Scale + self.vintage_intensity \div 2), Scale)
        a2 == Then(a1, LAMBDA a : apply_vintage_highpass(self, a, bass_cutoff))
    IN  IF self.vintage_intensity > (3 * Scale) \div 10
        THEN Then(a2, LAMBDA a :
                apply_speech_emphasis_enhanced(self, a,
                    Scale + (2 * self.vintage_intensity) \div 10))
        ELSE a2

apply_frequency_response_shaping_enhanced(self, audio) ==
    IF Len(audio) <= 1 THEN Ok(audio)
    ELSE ShapeAt(self, audio, ShapingCutoff(self))

\* mutant: the effective depth is interpolated towards 16 bits at every
\* configured depth
EffectiveBitsTowards16(self) ==
    IF self.vintage_intensity < Scale
    THEN self.bit_depth
         + ((16 - self.bit_depth) * (Scale - self.vintage_intensity)) \div Scale
    ELSE self.bit_depth

\* the bit depth the samples are quantized to
EffectiveBits(self) ==
    IF self.vintage_intensity < Scale
    THEN LET max_bits == IF self.bit_depth > 8 THEN 16 ELSE self.bit_depth
         IN  self.bit_depth
             + ((max_bits - self.bit_depth) * (Scale - self.vintage_intensity)) \div Scale
    ELSE self.bit_depth

apply_enhanced_bit_crushing(self, audio, z) ==
    IF self.bit_depth >= 16 /\ self.vintage_intensity < (3 * Scale) \div 10
    THEN Ok(audio)
    ELSE LET effective_bits == EffectiveBits(self)
             max_level == Pow2(effective_bits - 1) - 1
             quantized == Quantize(audio, max_level)
             noise_amplitude ==
                 IF self.quantization_noise /\ self.vintage_intensity > 0
                 THEN Mul(RoundDiv(Scale, 2 * Pow2(effective_bits)), self.vintage_intensity)
                 ELSE 0
             dither_amplitude ==
                 IF self.bit_depth >= 12 /\ self.vintage_intensity < (8 * Scale) \div 10
                 THEN RoundDiv(Scale, Pow2(effective_bits + 1))
                 ELSE 0
         IN  Ok([i \in 1..Len(audio) |->
                    Clip(quantized[i] + z * noise_amplitude + z * dither_amplitude,
                         -Scale, Scale)])

apply_vintage_compression_enhanced(self, audio) ==
    IF Len(audio) = 0 THEN Ok(audio)
    ELSE Ok(Compress(audio,
                     (8 * Scale) \div 10 - (2 * self.vintage_intensity) \div 10,
                     2 * Scale + 2 * self.vintage_intensity,
                     Mul(Scale \div 10, Scale + self.vintage_intensity),
                     Mul(Scale \div 1000, Scale + 2 * self.vintage_intensity)))

apply_spectral_enhancement(self, audio) ==
    IF Len(audio) <= 1 THEN Ok(audio)
    ELSE Ok([i \in 1..Len(audio) |->
                audio[i]
                + RoundDiv(5 * Sin(2 * RoundDiv(Pi * ((1000 * (i - 1)) % self.sample_rate),
                                                self.sample_rate)), 100)])

apply_harmonic_enrichment(audio) ==
    IF Len(audio) = 0 THEN Ok(audio)
    ELSE Ok([i \in 1..Len(audio) |->
                Clip(audio[i] + RoundDiv(Sign(audio[i]) * audio[i] * audio[i], 100 * Scale),
                     -Scale, Scale)])

apply_noise_reduction(audio) ==
    LET window_size == Min(512, Len(audio) \div 4)
    IN  IF Len(audio) <= 1 \/ window_size < 2 THEN Ok(audio)
        ELSE LET windowed_energy ==
                     ConvolveSame([i \in 1..Len(audio) |-> Mul(audio[i], audio[i])],
                                  window_size)
             IN  Ok([i \in 1..Len(audio) |->
                        IF windowed_energy[i] < Scale \div 100
                        THEN audio[i] \div 2 ELSE audio[i]])

\* 0.7 * audio + 0.3 * smoothed: numpy cannot add arrays of different sizes
apply_temporal_smoothing(audio) ==
    IF Len(audio) <= 1 THEN Ok(audio)
    ELSE LET smoothed == ConvolveSame(audio, 3)
         IN  IF Len(smoothed) # Len(audio) THEN Raise("ValueError")
             ELSE Ok([i \in 1..Len(audio) |->
                        RoundDiv(7 * audio[i] + 3 * smoothed[i], 10)])

apply_preset_processing(self, audio, z, wrap) ==
    IF self.vintage_preset = "dr_sbaitso"
    THEN apply_sound_blaster_characteristics(self, audio, z, wrap)
    ELSE IF self.vintage_preset = "dr_sbaitso_enhanced"
    THEN LET a1 == apply_sound_blaster_characteristics(self, audio, z, wrap)
         IN  IF self.bit_depth >= 12
             THEN Then(a1, LAMBDA a : apply_high_quality_lowpass(self, a, 10000))
             ELSE a1
    ELSE IF self.vintage_preset = "subtle_vintage"
    THEN Then(apply_enhanced_bit_crushing(self, audio, z),
              LAMBDA a : apply_high_quality_lowpass(self, a, 12000))
    ELSE Ok(audio)

\* vintage_intensity * vintage_audio + clean_ratio * audio
Blend(self, vintage_audio, audio) ==
    IF self.vintage_intensity < Scale
    THEN [i \in 1..Len(audio) |->
             RoundDiv(self.vintage_intensity * vintage_audio[i]
                      + (Scale - self.vintage_intensity) * audio[i], Scale)]
    ELSE vintage_audio

\* stages 1 to 5 of _apply_vintage_processing_chain: the signal before the blend
apply_vintage_chain_stages(self, audio, z, wrap) ==
    LET a1 == IF self.analog_simulation
              THEN simulate_analog_frontend_enhanced(self, audio, z)
              ELSE Ok(audio)
        a2 == IF self.frequency_response_shaping
              THEN Then(a1, LAMBDA a : apply_frequency_response_shaping_enhanced(self, a))
              ELSE a1
        a3 == Then(a2, LAMBDA a : apply_enhanced_bit_crushing(self, a, z))
        a4 == Then(a3, LAMBDA a : apply_vintage_compression_enhanced(self, a))
    IN  Then(a4, LAMBDA a : apply_preset_processing(self, a, z, wrap))

apply_vintage_processing_chain(self, audio, z, wrap) ==
    Then(apply_vintage_chain_stages(self, audio, z, wrap),
         LAMBDA a : Ok(Blend(self, a, audio)))

\* whether process runs the vintage chain
RunsVintageChain(self) == self.vintage_enabled /\ self.vintage_intensity > 0

\* mutant: the class does not override process and inherits VintageDSP's
enhanced_process_inherited(self, audio, z, wrap) == vintage_process(self, audio, z)

\* EnhancedVintageDSP.process
enhanced_process(self, audio, z, wrap) ==
    IF Len(audio) = 0 THEN Ok(audio)
    ELSE LET a1 == IF self.spectral_enhancement
                   THEN apply_spectral_enhancement(self, audio)
                   ELSE Ok(audio)
             a2 == IF self.harmonic_enrichment
                   THEN Then(a1, LAMBDA a : apply_harmonic_enrichment(a))
                   ELSE a1
             a3 == IF RunsVintageChain(self)
                   THEN Then(a2, LAMBDA a : apply_vintage_processing_chain(self, a, z, wrap))
                   ELSE a2
             a4 == IF self.noise_reduction
                   THEN Then(a3, LAMBDA a : apply_noise_reduction(a))
                   ELSE a3
         IN  IF self.temporal_smoothing
             THEN Then(a4, LAMBDA a : apply_temporal_smoothing(a))
             ELSE a4

\* the process method of the object's class
process(self, audio, z, wrap) ==
    IF self.kind = "EnhancedVintageDSP"
    THEN enhanced_process(self, audio, z, wrap)
    ELSE vintage_process(self, audio, z)

(***************************************************************************)
(* The stages by the names of their methods, and the stages a call of      *)
(* process runs, in the order it runs them.                                *)
(***************************************************************************)
VintageStages ==
    {"_simulate_analog_frontend", "_apply_vintage_antialiasing", "_apply_bit_crushing",
     "_apply_sample_rate_artifacts", "_apply_frequency_response_shaping",
     "_apply_vintage_lowpass", "_apply_vintage_highpass", "_apply_speech_emphasis",
     "_apply_vintage_compression", "_apply_output_stage_processing"}

EnhancedStages ==
    {"_simulate_analog_frontend_enhanced", "_apply_frequency_response_shaping_enhanced",
     "_apply_enhanced_bit_crushing", "_apply_vintage_compression_enhanced",
     "_apply_preset_processing", "_apply_spectral_enhancement",
     "_apply_harmonic_enrichment", "_apply_noise_reduction",
     "_apply_temporal_smoothing", "_apply_high_quality_lowpass",
     "_apply_speech_emphasis_enhanced"}

\* self.<name>(audio); a filter called on its own gets the cutoff or the
\* gain the chain calls it with
Stage(self, name, audio, z, wrap) ==
    CASE name = "_simulate_analog_frontend" -> simulate_analog_frontend(audio)
      [] name = "_apply_vintage_antialiasing" -> apply_vintage_antialiasing(self, audio)
      [] name = "_apply_bit_crushing" -> apply_bit_crushing(self, audio, z)
      [] name = "_apply_sample_rate_artifacts" -> apply_sample_rate_artifacts(self, audio)
      [] name = "_apply_frequency_response_shaping" ->
             apply_frequency_response_shaping(self, audio)
      [] name = "_apply_vintage_lowpass" -> apply_vintage_lowpass(self, audio, 8000)
      [] name = "_apply_vintage_highpass" -> apply_vintage_highpass(self, audio, 200)
      [] name = "_apply_speech_emphasis" -> apply_speech_emphasis(self, audio)
      [] name = "_apply_vintage_compression" -> apply_vintage_compression(audio)
      [] name = "_apply_output_stage_processing" ->
             apply_output_stage_processing(self, audio)
      [] name = "_simulate_analog_frontend_enhanced" ->
             simulate_analog_frontend_enhanced(self, audio, z)
      [] name = "_apply_frequency_response_shaping_enhanced" ->
             apply_frequency_response_shaping_enhanced(self, audio)
      [] name = "_apply_enhanced_bit_crushing" -> apply_enhanced_bit_crushing(self, audio, z)
      [] name = "_apply_vintage_compression_enhanced" ->
             apply_vintage_compression_enhanced(self, audio)
      [] name = "_apply_preset_processing" -> apply_preset_processing(self, audio, z, wrap)
      [] name = "_apply_spectral_enhancement" -> apply_spectral_enhancement(self, audio)
      [] name = "_apply_harmonic_enrichment" -> apply_harmonic_enrichment(audio)
      [] name = "_apply_noise_reduction" -> apply_noise_reduction(audio)
      [] name = "_apply_temporal_smoothing" -> apply_temporal_smoothing(audio)
      [] name = "_apply_high_quality_lowpass" ->
             apply_high_quality_lowpass(self, audio, 10000)
      [] name = "_apply_speech_emphasis_enhanced" ->
             apply_speech_emphasis_enhanced(self, audio, (12 * Scale) \div 10)

\* the stages of names run one after the other from the result r, up to the
\* first that raises: the result, and the stages that were entered
\* F of the value of v, with v evaluated once
Bind(v, F(_)) == CHOOSE y \in {F(x) : x \in {v}} : TRUE

RECURSIVE RunStages(_, _, _, _, _)
RunStages(self, names, r, z, wrap) ==
    IF names = <<>> \/ r.err # "" THEN r
    ELSE Bind(Stage(self, Head(names), r.x, z, wrap),
              LAMBDA s :
                  RunStages(self, Tail(names),
                            [err |-> s.err, x |-> s.x,
                             ran |-> Append(r.ran, Head(names))],
                            z, wrap))

Started(audio) == [err |-> "", x |-> audio, ran |-> <<>>]

\* the stages of VintageDSP.process
vintage_process_stages ==
    <<"_simulate_analog_frontend", "_apply_vintage_antialiasing", "_apply_bit_crushing",
      "_apply_sample_rate_artifacts", "_apply_frequency_response_shaping",
      "_apply_vintage_compression", "_apply_output_stage_processing">>

\* the stages EnhancedVintageDSP.process runs before the vintage chain
enhanced_pre_stages(self) ==
    (IF self.spectral_enhancement THEN <<"_apply_spectral_enhancement">> ELSE <<>>)
    \o (IF self.harmonic_enrichment THEN <<"_apply_harmonic_enrichment">> ELSE <<>>)

\* the stages of _apply_vintage_processing_chain
enhanced_chain_stages(self) ==
    (IF self.analog_simulation THEN <<"_simulate_analog_frontend_enhanced">> ELSE <<>>)
    \o (IF self.frequency_response_shaping
        THEN <<"_apply_frequency_response_shaping_enhanced">> ELSE <<>>)
    \o <<"_apply_enhanced_bit_crushing", "_apply_vintage_compression_enhanced",
         "_apply_preset_processing">>

\* the stages EnhancedVintageDSP.process runs after the vintage chain
enhanced_post_stages(self) ==
    (IF self.noise_reduction THEN <<"_apply_noise_reduction">> ELSE <<>>)
    \o (IF self.temporal_smoothing THEN <<"_apply_temporal_smoothing">> ELSE <<>>)

\* a call of process stage by stage: the result and the stages it entered
process_by_stages(self, audio, z, wrap) ==
    IF Len(audio) = 0 THEN Started(audio)
    ELSE IF self.kind = "VintageDSP"
    THEN RunStages(self, vintage_process_stages, Started(audio), z, wrap)
    ELSE LET Blended(pre, chain) ==
                 IF RunsVintageChain(self) /\ chain.err = ""
                 THEN [chain EXCEPT !.x = Blend(self, chain.x, pre.x)]
                 ELSE chain
             Chain(pre) ==
                 IF RunsVintageChain(self)
                 THEN RunStages(self, enhanced_chain_stages(self), pre, z, wrap)
                 ELSE pre
         IN  Bind(RunStages(self, enhanced_pre_stages(self), Started(audio), z, wrap),
                  LAMBDA pre :
                      Bind(Chain(pre), LAMBDA chain :
                          Bind(Blended(pre, chain), LAMBDA blended :
                              RunStages(self, enhanced_post_stages(self), blended,
                                        z, wrap))))

(***************************************************************************)
(* The objects and the buffers the signal chain is run with.               *)
(***************************************************************************)
\* longest buffer of the exhaustive inputs of process
MaxLen == 2

\* sample values -1.0, 0.5 and 1.0
Samples == {-Scale, Scale \div 2, Scale}

\* two longer buffers: three samples reach the recursive part of the
\* peaking filter, eight give the noise gate a window of two samples
LongInputs ==
    {<<Scale, -Scale, Scale \div 2>>,
     <<Scale, Scale, 0, 0, 0, 0, -Scale, Scale \div 2>>}

AudioInputs == SeqsUpTo(Samples, MaxLen) \cup LongInputs

\* a stage called on its own gets the empty buffer or one sample
StageInputs == {<<>>} \cup {<<x>> : x \in Samples}

\* the buffers a stage is called with on its own: none, one, two, three
\* and eight samples
ShortInputs ==
    {<<>>, <<Scale \div 2>>, <<Scale, -Scale>>} \cup LongInputs

DspSampleRates == {8000, 22050}
BitDepths == {8, 12, 16}
Intensities == {0, (2 * Scale) \div 10, (5 * Scale) \div 10, Scale}
PresetNames == {"dr_sbaitso", "dr_sbaitso_enhanced", "subtle_vintage", "custom"}

\* the vintage_processing sections: every intensity under the default
\* preset, every preset at half intensity, a preset at intensity 0,
\* processing disabled, and the three stage flags off
VintageSections ==
    {[intensity |-> i] : i \in Intensities}
    \cup {[intensity |-> (5 * Scale) \div 10, preset |-> p] : p \in PresetNames}
    \cup {[intensity |-> 0, preset |-> "subtle_vintage"],
          [enabled |-> FALSE],
          [intensity |-> (5 * Scale) \div 10, analog_simulation |-> FALSE,
           frequency_response_shaping |-> FALSE, quantization_noise |-> FALSE]}

\* the advanced sections that switch something on
AdvancedSections ==
    {[spectral_enhancement |-> TRUE],
     [harmonic_enrichment |-> TRUE, noise_reduction |-> TRUE,
      temporal_smoothing |-> TRUE]}

DspConfigs ==
    {[audio |-> [sample_rate |-> r, bit_depth |-> b],
      vintage_processing |-> [intensity |-> i]] :
        r \in DspSampleRates, b \in BitDepths, i \in Intensities}
    \cup {[audio |-> [sample_rate |-> 22050, bit_depth |-> b],
           vintage_processing |-> v] :
        b \in BitDepths, v \in VintageSections}
    \cup {[audio |-> [sample_rate |-> 22050, bit_depth |-> b],
           vintage_processing |-> [intensity |-> i], advanced |-> a] :
        b \in {8, 16}, i \in {0, (5 * Scale) \div 10, Scale}, a \in AdvancedSections}

\* the configurations of the objects whose stages are called on their own
StageConfigs ==
    {[audio |-> [sample_rate |-> 22050, bit_depth |-> b],
      vintage_processing |-> [intensity |-> i]] :
        b \in BitDepths, i \in Intensities}
    \cup {[audio |-> [sample_rate |-> 8000, bit_depth |-> 8],
           vintage_processing |-> [intensity |-> Scale]]}

VintageObjects == {VintageDSP(r, b) : r \in DspSampleRates, b \in BitDepths}
EnhancedObjects == {EnhancedVintageDSP(c) : c \in DspConfigs}

\* process, tabulated over the objects and buffers above
VintageProcessOf ==
    [self \in VintageObjects |-> [audio \in AudioInputs |-> [z \in NoiseDraws |->
        vintage_process(self, audio, z)]]]

EnhancedProcessOf ==
    [self \in EnhancedObjects |-> [wrap \in BOOLEAN |-> [audio \in AudioInputs |->
        [z \in NoiseDraws |-> enhanced_process(self, audio, z, wrap)]]]]

\* the stages called on their own, tabulated over the objects they are
\* called on and the short buffers
StageObjects == VintageObjects \cup {EnhancedVintageDSP(c) : c \in StageConfigs}

StageOf ==
    [self \in StageObjects |-> [wrap \in BOOLEAN |->
        [name \in (IF self.kind = "EnhancedVintageDSP"
                   THEN VintageStages \cup EnhancedStages ELSE VintageStages) |->
            [audio \in ShortInputs |-> [z \in NoiseDraws |->
                Stage(self, name, audio, z, wrap)]]]]]

StageResult(self, name, audio, z, wrap) ==
    IF self \in StageObjects /\ audio \in ShortInputs
    THEN StageOf[self][wrap][name][audio][z]
    ELSE Stage(self, name, audio, z, wrap)

\* the stages process enters, tabulated over the same objects and buffers
VintageStagesOf ==
    [self \in VintageObjects |-> [audio \in AudioInputs |-> [z \in NoiseDraws |->
        process_by_stages(self, audio, z, FALSE).ran]]]

EnhancedStagesOf ==
    [self \in EnhancedObjects |-> [wrap \in BOOLEAN |-> [audio \in AudioInputs |->
        [z \in NoiseDraws |-> process_by_stages(self, audio, z, wrap).ran]]]]

ProcessStages(self, audio, z, wrap) ==
    IF audio \in AudioInputs /\ self \in VintageObjects
    THEN VintageStagesOf[self][audio][z]
    ELSE IF audio \in AudioInputs /\ self \in EnhancedObjects
    THEN EnhancedStagesOf[self][wrap][audio][z]
    ELSE process_by_stages(self, audio, z, wrap).ran

ProcessResult(self, audio, z, wrap) ==
    IF audio \notin AudioInputs THEN process(self, audio, z, wrap)
    ELSE IF self.kind = "VintageDSP"
    THEN IF self \in VintageObjects THEN VintageProcessOf[self][audio][z]
         ELSE process(self, audio, z, wrap)
    ELSE IF self \in EnhancedObjects THEN EnhancedProcessOf[self][wrap][audio][z]
         ELSE process(self, audio, z, wrap)

(***************************************************************************)
(* Operations on the DSP object.                                           *)
(***************************************************************************)
DspInit ==
    /\ dsp = VintageDSP(22050, 8)
    /\ dsp_call = "init"
    /\ dsp_audio = <<>>
    /\ dsp_noise = 0
    /\ dsp_result = Ok(<<>>)
    /\ dsp_stages = <<>>

\* VintageDSP(sample_rate, bit_depth)
NewVintageDSP(sample_rate, bit_depth) ==
    /\ dsp' = VintageDSP(sample_rate, bit_depth)
    /\ dsp_call' = "init"
    /\ dsp_audio' = <<>>
    /\ dsp_noise' = 0
    /\ dsp_stages' = <<>>
    /\ dsp_result' = Ok(<<>>)
    /\ UNCHANGED <<uint8_wraps, synVars, cmVars, outVars, textVars>>

\* EnhancedVintageDSP(config)
NewEnhancedVintageDSP(config) ==
    /\ dsp' = EnhancedVintageDSP(config)
    /\ dsp_call' = "init"
    /\ dsp_audio' = <<>>
    /\ dsp_noise' = 0
    /\ dsp_stages' = <<>>
    /\ dsp_result' = Ok(<<>>)
    /\ UNCHANGED <<uint8_wraps, synVars, cmVars, outVars, textVars>>

\* mutant: the low-pass stage keeps its last input in _filter_state
process_fields_filtering(self, audio) ==
    IF audio = <<>> THEN self
    ELSE [self EXCEPT !.filter_state = <<audio[Len(audio)], 0, 0, 0>>]

\* the fields of the object when process returns: the stages work on local
\* buffers and none of them assigns an attribute, _filter_state included
process_fields(self, audio) == self

\* dsp.process(audio)
Process(audio, z) ==
    /\ dsp_call' = "process"
    /\ dsp_audio' = audio
    /\ dsp_noise' = z
    /\ dsp_result' = ProcessResult(dsp, audio, z, uint8_wraps)
    /\ dsp_stages' = ProcessStages(dsp, audio, z, uint8_wraps)
    /\ dsp' = process_fields(dsp, audio)
    /\ UNCHANGED <<uint8_wraps, synVars, cmVars, outVars, textVars>>

\* dsp._apply_bit_crushing(audio)
ApplyBitCrushing(audio, z) ==
    /\ dsp_call' = "apply_bit_crushing"
    /\ dsp_audio' = audio
    /\ dsp_noise' = z
    /\ dsp_result' = apply_bit_crushing(dsp, audio, z)
    /\ dsp_stages' = <<>>
    /\ UNCHANGED <<dsp, uint8_wraps, synVars, cmVars, outVars, textVars>>

\* dsp.apply_sound_blaster_characteristics(audio)
ApplySoundBlasterCharacteristics(audio, z) ==
    /\ dsp_call' = "apply_sound_blaster_characteristics"
    /\ dsp_audio' = audio
    /\ dsp_noise' = z
    /\ dsp_result' = apply_sound_blaster_characteristics(dsp, audio, z, uint8_wraps)
    /\ dsp_stages' = <<>>
    /\ UNCHANGED <<dsp, uint8_wraps, synVars, cmVars, outVars, textVars>>

\* dsp.apply_preset_vintage_effect(audio, preset)
ApplyPresetVintageEffect(audio, preset, z) ==
    /\ dsp_call' = "apply_preset_vintage_effect:" \o preset
    /\ dsp_audio' = audio
    /\ dsp_noise' = z
    /\ dsp_result' = apply_preset_vintage_effect(dsp, audio, preset, z, uint8_wraps)
    /\ dsp_stages' = <<>>
    /\ UNCHANGED <<dsp, uint8_wraps, synVars, cmVars, outVars, textVars>>

\* dsp.<name>(audio), a stage called on its own
ApplyStage(name, audio, z) ==
    /\ name \in EnhancedStages => dsp.kind = "EnhancedVintageDSP"
    /\ dsp_call' = name
    /\ dsp_audio' = audio
    /\ dsp_noise' = z
    /\ dsp_result' = StageResult(dsp, name, audio, z, uint8_wraps)
    /\ dsp_stages' = <<>>
    /\ UNCHANGED <<dsp, uint8_wraps, synVars, cmVars, outVars, textVars>>

DspNext ==
    \/ \E r \in DspSampleRates, b \in BitDepths : NewVintageDSP(r, b)
    \/ \E config \in DspConfigs : NewEnhancedVintageDSP(config)
    \/ \E audio \in AudioInputs, z \in NoiseDraws : Process(audio, z)
    \/ \E audio \in StageInputs, z \in NoiseDraws : ApplyBitCrushing(audio, z)
    \/ \E audio \in StageInputs, z \in NoiseDraws : ApplySoundBlasterCharacteristics(audio, z)
    \/ \E audio \in StageInputs, z \in NoiseDraws,
          preset \in {"dr_sbaitso", "early_tts", "sound_blaster"} :
            ApplyPresetVintageEffect(audio, preset, z)

\* the stages and the entry points of the chain called on short buffers
StageNext ==
    \/ \E r \in DspSampleRates, b \in BitDepths : NewVintageDSP(r, b)
    \/ \E config \in StageConfigs : NewEnhancedVintageDSP(config)
    \/ \E name \in VintageStages \cup EnhancedStages, audio \in ShortInputs,
          z \in NoiseDraws : ApplyStage(name, audio, z)
    \/ \E audio \in ShortInputs, z \in NoiseDraws : Process(audio, z)
    \/ \E audio \in ShortInputs, z \in NoiseDraws :
          ApplySoundBlasterCharacteristics(audio, z)
    \/ \E audio \in ShortInputs, z \in NoiseDraws,
          preset \in {"dr_sbaitso", "early_tts", "sound_blaster"} :
            ApplyPresetVintageEffect(audio, preset, z)

(***************************************************************************)
(* ConfigManager (config_manager.py).  A dict is a function from its keys; *)
(* the values under the keys of ScalarKeys are strings, every other        *)
(* top-level value is a section, a dict itself.                            *)
(***************************************************************************)
ScalarKeys == {"version", "name", "description"}

\* ConfigManager._get_fallback_config
FallbackConfig ==
    [version |-> "2.0",
     audio |-> [sample_rate |-> 22050, bit_depth |-> 8, channels |-> 1,
                buffer_size |-> 1024],
     synthesis |-> [formant_count |-> 3, formant_precision |-> "standard",
                    diphone_smoothing |-> FALSE, prosody_enhancement |-> FALSE],
     vintage_processing |-> [enabled |-> TRUE, intensity |-> Scale,
                             preset |-> "dr_sbaitso"],
     quality |-> [preset |-> "authentic_1986", adaptive_quality |-> FALSE]]

\* The preset files of config/presets are not part of the sources; the
\* tests name the presets, and a store of two of them stands for the files.
PresetStore ==
    [authentic_1986 |->
        [name |-> "Authentic 1986", description |-> "original sound",
         audio |-> [sample_rate |-> 22050, bit_depth |-> 8],
         vintage_processing |-> [intensity |-> Scale, preset |-> "dr_sbaitso"]],
     modern_retro |->
        [name |-> "Modern Retro", description |-> "clean sound",
         audio |-> [sample_rate |-> 22050, bit_depth |-> 16],
         vintage_processing |-> [intensity |-> (2 * Scale) \div 10,
                                 preset |-> "subtle_vintage"],
         advanced |-> [spectral_enhancement |-> TRUE]]]

\* A value of a dict is a number, a truth value or a string according to
\* its key.  A string stored where the code reads a number, as in
\* {"sample_rate": "44100"}, is held under the key marked as text, so that
\* the values under one key are of one type; the dict has one of the two.
TextKey(key) == key \o ":str"

\* d with key k set to v
DictSet(d, k, v) ==
    [x \in (DOMAIN d \ {TextKey(k)}) \cup {k} |-> IF x = k THEN v ELSE d[x]]

\* d without the keys of ks
DictPop(d, ks) == [x \in DOMAIN d \ ks |-> d[x]]

\* ConfigManager._merge_configs: a section of both is merged key by key, any
\* other value of override replaces the one of base
merge_configs(base_config, override_config) ==
    [k \in DOMAIN base_config \cup DOMAIN override_config |->
        IF k \notin DOMAIN override_config THEN base_config[k]
        ELSE IF k \in DOMAIN base_config /\ k \notin ScalarKeys
        THEN [x \in (DOMAIN base_config[k]
                        \ {TextKey(y) : y \in DOMAIN override_config[k]})
                    \cup DOMAIN override_config[k] |->
                 IF x \in DOMAIN override_config[k] THEN override_config[k][x]
                 ELSE base_config[k][x]]
        ELSE override_config[k]]

\* the sections whose dict object the merge takes from the stored preset
\* itself, and the sections it builds anew
MergeAlias(alias, base_config, override_config, preset_name) ==
    [k \in (DOMAIN alias \ DOMAIN override_config)
           \cup {x \in DOMAIN override_config : x \notin DOMAIN base_config
                                                /\ x \notin ScalarKeys} |->
        IF k \in DOMAIN override_config THEN preset_name ELSE alias[k]]

\* presets after current_config[section][key] = value, the section's
\* object being the stored one of a preset or not
WriteThrough(presets, alias, section, key, value) ==
    IF section \in DOMAIN alias
    THEN [presets EXCEPT ![alias[section]] =
              DictSet(@, section, DictSet(@[section], key, value))]
    ELSE presets

\* ConfigManager.validate_config: the number of errors it lists
validate_config(config) ==
    LET audio_config == Get(config, "audio", EmptyDict)
        synthesis_config == Get(config, "synthesis", EmptyDict)
        vintage_config == Get(config, "vintage_processing", EmptyDict)
        sample_rate == Get(audio_config, "sample_rate", 22050)
        formant_count == Get(synthesis_config, "formant_count", 3)
        intensity == Get(vintage_config, "intensity", Scale)
    IN  (IF sample_rate >= 8000 /\ sample_rate <= 48000 THEN 0 ELSE 1)
        + (IF Get(audio_config, "bit_depth", 8) \in {8, 12, 16} THEN 0 ELSE 1)
        + (IF Get(audio_config, "channels", 1) \in {1, 2} THEN 0 ELSE 1)
        + (IF formant_count >= 3 /\ formant_count <= 5 THEN 0 ELSE 1)
        + (IF intensity >= 0 /\ intensity <= Scale THEN 0 ELSE 1)

\* ConfigManager.validate_config raises TypeError: a comparison of a number
\* with a string, 8000 <= sample_rate, 3 <= formant_count or 0.0 <= intensity
validate_config_raises(config) ==
    \/ TextKey("sample_rate") \in DOMAIN Get(config, "audio", EmptyDict)
    \/ TextKey("formant_count") \in DOMAIN Get(config, "synthesis", EmptyDict)
    \/ TextKey("intensity") \in DOMAIN Get(config, "vintage_processing", EmptyDict)

CmInit ==
    /\ cm_current_config = FallbackConfig
    /\ cm_available_presets = EmptyDict
    /\ cm_alias = EmptyDict
    /\ cm_call = "init"
    /\ cm_ret = TRUE

\* ConfigManager(): without config/default.json the fallback configuration,
\* and the presets config/presets holds, if any
NewConfigManager(presets) ==
    /\ cm_current_config' = FallbackConfig
    /\ cm_available_presets' = presets
    /\ cm_alias' = EmptyDict
    /\ cm_call' = "init"
    /\ cm_ret' = TRUE
    /\ UNCHANGED <<synVars, dspVars, outVars, textVars>>

\* ConfigManager.set_config(section, key, value): the manager's part of the step
set_config(section, key, value) ==
    /\ cm_call' = "set_config"
    /\ IF section \in DOMAIN cm_current_config /\ section \in ScalarKeys
       THEN \* item assignment on a str raises TypeError, which is caught
            /\ cm_ret' = FALSE
            /\ UNCHANGED <<cm_current_config, cm_available_presets, cm_alias>>
       ELSE /\ cm_ret' = TRUE
            /\ cm_current_config' =
                 DictSet(cm_current_config, section,
                         DictSet(Get(cm_current_config, section, EmptyDict), key, value))
            /\ cm_available_presets' =
                 WriteThrough(cm_available_presets, cm_alias, section, key, value)
            /\ UNCHANGED cm_alias

\* config_manager.set_config(section, key, value)
SetConfig(section, key, value) ==
    /\ set_config(section, key, value)
    /\ UNCHANGED <<synVars, dspVars, outVars, textVars>>

\* ConfigManager.load_preset(preset_name): the manager's part of the step
load_preset(preset_name) ==
    /\ cm_call' = "load_preset"
    /\ IF preset_name \notin DOMAIN cm_available_presets
       THEN /\ cm_ret' = FALSE
            /\ UNCHANGED <<cm_current_config, cm_available_presets, cm_alias>>
       ELSE LET preset_config == DictPop(cm_available_presets[preset_name],
                                         {"name", "description"})
                merged == merge_configs(cm_current_config, preset_config)
                alias == MergeAlias(cm_alias, cm_current_config, preset_config,
                                    preset_name)
            IN  IF "quality" \in DOMAIN merged
                THEN /\ cm_current_config' =
                          DictSet(merged, "quality",
                                  DictSet(merged["quality"], "preset", preset_name))
                     /\ cm_available_presets' =
                          WriteThrough(cm_available_presets, alias, "quality",
                                       "preset", preset_name)
                     /\ cm_alias' = alias
                     /\ cm_ret' = TRUE
                ELSE \* KeyError, caught after current_config was replaced
                     /\ cm_current_config' = merged
                     /\ cm_alias' = alias
                     /\ cm_ret' = FALSE
                     /\ UNCHANGED cm_available_presets

\* config_manager.load_preset(preset_name)
LoadPreset(preset_name) ==
    /\ load_preset(preset_name)
    /\ UNCHANGED <<synVars, dspVars, outVars, textVars>>

\* ConfigManager.load_config_file(filename): the file is unreadable or holds
\* the document doc.  current_config is assigned before validate_config is
\* called and restored only when it returns errors.
LoadConfigFile(readable, doc) ==
    /\ cm_call' = "load_config_file"
    /\ IF ~readable
       THEN /\ cm_ret' = FALSE
            /\ UNCHANGED <<cm_current_config, cm_alias>>
       ELSE IF validate_config_raises(doc)
       THEN /\ cm_current_config' = doc
            /\ cm_alias' = EmptyDict
            /\ cm_ret' = FALSE
       ELSE IF validate_config(doc) = 0
       THEN /\ cm_current_config' = doc
            /\ cm_alias' = EmptyDict
            /\ cm_ret' = TRUE
       ELSE /\ cm_ret' = FALSE
            /\ UNCHANGED <<cm_current_config, cm_alias>>
    /\ UNCHANGED <<cm_available_presets, synVars, dspVars, outVars, textVars>>

\* VintageDSP.set_bit_depth(bit_depth)
SetBitDepth(bit_depth) ==
    /\ dsp_call' = "set_bit_depth"
    /\ dsp_audio' = <<>>
    /\ dsp_noise' = 0
    /\ dsp_stages' = <<>>
    /\ IF bit_depth \in {8, 12, 16}
       THEN /\ dsp' = [dsp EXCEPT !.bit_depth = bit_depth,
                                  !.quantization_levels = Pow2(bit_depth)]
            /\ dsp_result' = Ok(<<>>)
       ELSE /\ dsp_result' = Raise("ValueError")
            /\ UNCHANGED dsp
    /\ UNCHANGED <<uint8_wraps, synVars, cmVars, outVars, textVars>>

\* dsp.update_config(config), defined by EnhancedVintageDSP only
UpdateConfig(config) ==
    /\ dsp.kind = "EnhancedVintageDSP"
    /\ dsp' = update_config(dsp, config)
    /\ dsp_call' = "update_config"
    /\ dsp_audio' = <<>>
    /\ dsp_noise' = 0
    /\ dsp_stages' = <<>>
    /\ dsp_result' = Ok(<<>>)
    /\ UNCHANGED <<uint8_wraps, synVars, cmVars, outVars, textVars>>

\* values passed to set_config and set_bit_depth, valid and invalid
BitDepthInputs == {5, 16}
IntensityInputs == {(5 * Scale) \div 10, (15 * Scale) \div 10}

\* the documents of the configuration files: a valid and an invalid one
ConfigFiles ==
    {[audio |-> [sample_rate |-> 22050, bit_depth |-> 12],
      vintage_processing |-> [intensity |-> 0]],
     [audio |-> [sample_rate |-> 22050, bit_depth |-> 5],
      vintage_processing |-> [intensity |-> (15 * Scale) \div 10]]}

\* a document whose sample rate is the string "44100"
TextRateFile ==
    [audio |-> [k \in {TextKey("sample_rate")} |-> "44100"],
     vintage_processing |-> [intensity |-> (5 * Scale) \div 10]]

\* the buffer process is run with after a configuration change
CfgInputs == {<<Scale, -Scale>>}

CfgNext ==
    \/ \E presets \in {EmptyDict, PresetStore} : NewConfigManager(presets)
    \/ \E b \in BitDepthInputs : SetConfig("audio", "bit_depth", b)
    \/ \E i \in IntensityInputs : SetConfig("vintage_processing", "intensity", i)
    \/ SetConfig("advanced", "spectral_enhancement", TRUE)
    \/ SetConfig("version", "major", 2)
    \/ \E preset_name \in {"modern_retro", "missing"} : LoadPreset(preset_name)
    \/ \E readable \in BOOLEAN, doc \in ConfigFiles : LoadConfigFile(readable, doc)
    \/ NewEnhancedVintageDSP(cm_current_config)
    \/ UpdateConfig(cm_current_config)
    \/ \E b \in BitDepthInputs : SetBitDepth(b)
    \/ \E audio \in CfgInputs : Process(audio, 0)

(***************************************************************************)
(* The specifications.                                                     *)
(***************************************************************************)
(***************************************************************************)
(* AudioOutput and EnhancedAudioOutput (audio_output.py,                   *)
(* enhanced_audio_output.py).  A buffer is known by its shape: n rows, and *)
(* cols = 0 for a one-dimensional array or the number of columns of a      *)
(* two-dimensional one; len(buffer) is n.  The padding times are whole,    *)
(* non-negative milliseconds.                                              *)
(***************************************************************************)
Shape(n, cols) == [n |-> n, cols |-> cols]

\* the padding EnhancedAudioOutput.__init__ takes when it is given none
DefaultPadding ==
    [start_silence_ms |-> 150, end_silence_ms |-> 250,
     fade_in_ms |-> 25, fade_out_ms |-> 50]

\* set_quality_preset_padding: the table preset_padding
PresetPadding ==
    [authentic_1986 |-> [start_silence_ms |-> 100, end_silence_ms |-> 200,
                         fade_in_ms |-> 10, fade_out_ms |-> 25],
     enhanced_vintage |-> [start_silence_ms |-> 150, end_silence_ms |-> 250,
                           fade_in_ms |-> 25, fade_out_ms |-> 50],
     modern_retro |-> [start_silence_ms |-> 200, end_silence_ms |-> 300,
                       fade_in_ms |-> 50, fade_out_ms |-> 75]]

\* AudioOutput.__init__
AudioOutput(sample_rate, channels) ==
    [kind |-> "AudioOutput", sample_rate |-> sample_rate, channels |-> channels,
     is_playing |-> FALSE, stop_event |-> FALSE]

\* EnhancedAudioOutput.__init__
EnhancedAudioOutput(sample_rate, channels, padding_config) ==
    [kind |-> "EnhancedAudioOutput", sample_rate |-> sample_rate,
     channels |-> channels, is_playing |-> FALSE, stop_event |-> FALSE,
     padding_config |-> padding_config]

\* mutant: the number of samples is rounded to nearest
ms_to_samples_rounded(ms, sample_rate) == RoundNearest(ms, sample_rate)

\* int(ms * self.sample_rate / 1000)
ms_to_samples(ms, sample_rate) == (ms * sample_rate) \div 1000

\* _prepare_audio_data: a mono buffer becomes two columns for a stereo
\* output, a two-dimensional one is averaged to mono for a mono output;
\* the clip keeps the shape
prepare_audio_data(self, audio_data) ==
    IF audio_data.cols = 0
    THEN (IF self.channels = 2 THEN Shape(audio_data.n, 2) ELSE audio_data)
    ELSE (IF self.channels = 1 THEN Shape(audio_data.n, 0) ELSE audio_data)

\* _apply_playback_processing: saturation, amplifier simulation and clip
\* work sample by sample on the buffer they are given
apply_playback_processing(self, audio_data) == audio_data

\* _add_silence_padding
add_silence_padding(self, audio_data) ==
    IF audio_data.n = 0 THEN audio_data
    ELSE LET start_samples == ms_to_samples(self.padding_config.start_silence_ms,
                                            self.sample_rate)
             end_samples   == ms_to_samples(self.padding_config.end_silence_ms,
                                            self.sample_rate)
         IN  Shape(start_samples + audio_data.n + end_samples, audio_data.cols)

\* _apply_fades: the buffer it returns, with the number of samples at the
\* start and at the end it multiplied by the fade curves
apply_fades(self, audio_data) ==
    IF audio_data.n = 0
    THEN [audio |-> audio_data, fade_in_samples |-> 0, fade_out_samples |-> 0]
    ELSE LET total_samples == audio_data.n
         IN  [audio |-> audio_data,
              fade_in_samples |->
                  Min(ms_to_samples(self.padding_config.fade_in_ms, self.sample_rate),
                      total_samples \div 4),
              fade_out_samples |->
                  Min(ms_to_samples(self.padding_config.fade_out_ms, self.sample_rate),
                      total_samples \div 4)]

\* _apply_enhanced_processing: the buffer it returns, with the padded buffer
\* and the fade lengths on the way
apply_enhanced_processing(self, audio_data) ==
    LET prepared == prepare_audio_data(self, audio_data)
        padded   == add_silence_padding(self, prepared)
        faded    == apply_fades(self, padded)
    IN  [audio |-> apply_playback_processing(self, faded.audio),
         padded |-> padded,
         fade_in_samples |-> faded.fade_in_samples,
         fade_out_samples |-> faded.fade_out_samples]

\* analyze_audio_timing: the entries of the dict that count samples or
\* repeat the configuration ({} for an empty buffer)
analyze_audio_timing(self, audio_data) ==
    IF audio_data.n = 0 THEN EmptyDict
    ELSE [original_samples |-> audio_data.n,
          enhanced_samples |-> apply_enhanced_processing(self, audio_data).audio.n,
          start_padding_ms |-> self.padding_config.start_silence_ms,
          end_padding_ms |-> self.padding_config.end_silence_ms,
          fade_in_ms |-> self.padding_config.fade_in_ms,
          fade_out_ms |-> self.padding_config.fade_out_ms]

\* s without its i-th element
RemoveAt(s, i) == SubSeq(s, 1, i - 1) \o SubSeq(s, i + 1, Len(s))

\* the worker threads that have not finished: pos is "started" before the
\* worker runs and "playing" while it waits for the end of the playback;
\* ref marks the one self._playback_thread refers to
Worker(audio_data) == [pos |-> "started", ref |-> TRUE, audio |-> audio_data]

\* what a call did: the object and the workers after it, the buffers it
\* handed to sd.play, whether it started a thread, whether it fell back to
\* the notification
Done(self, workers, sd_play, thread_started, fallback) ==
    [self |-> self, workers |-> workers, sd_play |-> sd_play,
     thread_started |-> thread_started, fallback |-> fallback]

\* stop: with a playback on, sd.stop(), the stop event set and the thread
\* joined, which ends the worker the object refers to; an exception of
\* sd.stop() is printed; _is_playing is False in the end
stop(self, workers, device_ok) ==
    IF ~self.is_playing THEN [self |-> self, workers |-> workers]
    ELSE IF ~device_ok
    THEN [self |-> [self EXCEPT !.is_playing = FALSE], workers |-> workers]
    ELSE [self |-> [self EXCEPT !.is_playing = FALSE, !.stop_event = TRUE],
          workers |-> SelectSeq(workers, LAMBDA w : ~w.ref)]

\* _play_blocking: sd.play(..., blocking=True) between _is_playing = True
\* and the finally; what sd.play raises is caught by play, which falls back
play_blocking(self, workers, audio_data, device_ok) ==
    Done([self EXCEPT !.is_playing = FALSE], workers, <<audio_data>>, FALSE,
         ~device_ok)

\* _play_async: stops a playback that is on and starts a worker thread
play_async(self, workers, audio_data, device_ok) ==
    LET stopped == stop(self, workers, device_ok)
    IN  Done([stopped.self EXCEPT !.stop_event = FALSE],
             Append([k \in 1..Len(stopped.workers) |->
                        [stopped.workers[k] EXCEPT !.ref = FALSE]],
                    Worker(audio_data)),
             <<>>, TRUE, FALSE)

\* mutant: play without the test for an empty buffer
audio_output_play_unguarded(self, workers, audio_data, blocking, device_ok) ==
    LET prepared == apply_playback_processing(self,
                        prepare_audio_data(self, audio_data))
    IN  IF blocking THEN play_blocking(self, workers, prepared, device_ok)
        ELSE play_async(self, workers, prepared, device_ok)

\* AudioOutput.play
audio_output_play(self, workers, audio_data, blocking, device_ok) ==
    IF audio_data.n = 0 THEN Done(self, workers, <<>>, FALSE, FALSE)
    ELSE LET prepared == apply_playback_processing(self,
                             prepare_audio_data(self, audio_data))
         IN  IF blocking THEN play_blocking(self, workers, prepared, device_ok)
             ELSE play_async(self, workers, prepared, device_ok)

\* EnhancedAudioOutput.play
enhanced_audio_output_play(self, workers, audio_data, blocking, device_ok) ==
    IF audio_data.n = 0 THEN Done(self, workers, <<>>, FALSE, FALSE)
    ELSE audio_output_play(self, workers,
                           apply_enhanced_processing(self, audio_data).audio,
                           blocking, device_ok)

\* audio_output.play(audio_data, blocking) on an object of either class
play(self, workers, audio_data, blocking, device_ok) ==
    IF self.kind = "EnhancedAudioOutput"
    THEN enhanced_audio_output_play(self, workers, audio_data, blocking, device_ok)
    ELSE audio_output_play(self, workers, audio_data, blocking, device_ok)

(***************************************************************************)
(* Operations on the audio output.                                         *)
(***************************************************************************)
\* threads alive at once
MaxWorkers == 2

OutSampleRates == {8000, 22050}
OutChannels == {1, 2}

\* the padding configurations an output is constructed with: the default,
\* fades without silence, and fades longer than the silence around them
PaddingConfigs ==
    {DefaultPadding,
     [start_silence_ms |-> 0, end_silence_ms |-> 0,
      fade_in_ms |-> 25, fade_out_ms |-> 50],
     [start_silence_ms |-> 1, end_silence_ms |-> 3,
      fade_in_ms |-> 500, fade_out_ms |-> 500]}

\* the buffers handed to the output: empty, one sample, seven samples and a
\* thousand, one-dimensional or of two columns
OutBuffers == {Shape(n, cols) : n \in {0, 1, 7, 1000}, cols \in {0, 2}}

NoCall == [name |-> "init", audio |-> Shape(0, 0), blocking |-> TRUE]
NoReturn == [sd_play |-> <<>>, thread_started |-> FALSE, fallback |-> FALSE]

OutInit ==
    /\ out = AudioOutput(22050, 1)
    /\ out_workers = <<>>
    /\ out_call = NoCall
    /\ out_ret = NoReturn

\* AudioOutput(sample_rate, channels)
NewAudioOutput(sample_rate, channels) ==
    /\ out_workers = <<>>
    /\ out' = AudioOutput(sample_rate, channels)
    /\ out_call' = NoCall
    /\ out_ret' = NoReturn
    /\ UNCHANGED <<out_workers, synVars, dspVars, cmVars, textVars>>

\* EnhancedAudioOutput(sample_rate, channels, padding_config=padding_config)
NewEnhancedAudioOutput(sample_rate, channels, padding_config) ==
    /\ out_workers = <<>>
    /\ out' = EnhancedAudioOutput(sample_rate, channels, padding_config)
    /\ out_call' = NoCall
    /\ out_ret' = NoReturn
    /\ UNCHANGED <<out_workers, synVars, dspVars, cmVars, textVars>>

\* out.play(audio_data, blocking)
Play(audio_data, blocking, device_ok) ==
    /\ (audio_data.n > 0 /\ ~blocking) => Len(out_workers) < MaxWorkers
    /\ LET r == play(out, out_workers, audio_data, blocking, device_ok)
       IN  /\ out' = r.self
           /\ out_workers' = r.workers
           /\ out_ret' = [sd_play |-> r.sd_play,
                          thread_started |-> r.thread_started,
                          fallback |-> r.fallback]
    /\ out_call' = [name |-> "play", audio |-> audio_data, blocking |-> blocking]
    /\ UNCHANGED <<synVars, dspVars, cmVars, textVars>>

\* mutant: the worker ends without its finally
worker_finally_skipped(self) == self

\* _async_playback_worker: finally: self._is_playing = False
worker_finally(self) == [self EXCEPT !.is_playing = FALSE]

\* _async_playback_worker, up to the wait: _is_playing = True and sd.play;
\* an exception of sd.play is printed and the finally ends the worker
AsyncPlaybackWorker(i, device_ok) ==
    /\ i \in 1..Len(out_workers)
    /\ out_workers[i].pos = "started"
    /\ out' = IF device_ok THEN [out EXCEPT !.is_playing = TRUE]
              ELSE worker_finally([out EXCEPT !.is_playing = TRUE])
    /\ out_workers' = IF device_ok
                      THEN [out_workers EXCEPT ![i].pos = "playing"]
                      ELSE RemoveAt(out_workers, i)
    /\ out_call' = [name |-> "_async_playback_worker",
                    audio |-> out_workers[i].audio, blocking |-> FALSE]
    /\ out_ret' = [sd_play |-> <<out_workers[i].audio>>,
                   thread_started |-> FALSE, fallback |-> FALSE]
    /\ UNCHANGED <<synVars, dspVars, cmVars, textVars>>

\* _async_playback_worker, from the end of the wait: the finally
AsyncPlaybackWorkerEnds(i) ==
    /\ i \in 1..Len(out_workers)
    /\ out_workers[i].pos = "playing"
    /\ out' = worker_finally(out)
    /\ out_workers' = RemoveAt(out_workers, i)
    /\ out_call' = [name |-> "_async_playback_worker",
                    audio |-> out_workers[i].audio, blocking |-> FALSE]
    /\ out_ret' = NoReturn
    /\ UNCHANGED <<synVars, dspVars, cmVars, textVars>>

\* out.stop()
Stop(device_ok) ==
    /\ LET r == stop(out, out_workers, device_ok)
       IN  /\ out' = r.self
           /\ out_workers' = r.workers
    /\ out_call' = [name |-> "stop", audio |-> Shape(0, 0), blocking |-> FALSE]
    /\ out_ret' = NoReturn
    /\ UNCHANGED <<synVars, dspVars, cmVars, textVars>>

\* out._apply_enhanced_processing(audio_data)
ApplyEnhancedProcessing(audio_data) ==
    /\ out.kind = "EnhancedAudioOutput"
    /\ out_call' = [name |-> "_apply_enhanced_processing", audio |-> audio_data,
                    blocking |-> FALSE]
    /\ out_ret' = apply_enhanced_processing(out, audio_data)
    /\ UNCHANGED <<out, out_workers, synVars, dspVars, cmVars, textVars>>

\* out.analyze_audio_timing(audio_data)
AnalyzeAudioTiming(audio_data) ==
    /\ out.kind = "EnhancedAudioOutput"
    /\ out_call' = [name |-> "analyze_audio_timing", audio |-> audio_data,
                    blocking |-> FALSE]
    /\ out_ret' = analyze_audio_timing(out, audio_data)
    /\ UNCHANGED <<out, out_workers, synVars, dspVars, cmVars, textVars>>

\* out.set_quality_preset_padding(preset_name)
SetQualityPresetPadding(preset_name) ==
    /\ out.kind = "EnhancedAudioOutput"
    /\ out' = IF preset_name \in DOMAIN PresetPadding
              THEN [out EXCEPT !.padding_config = PresetPadding[preset_name]]
              ELSE out
    /\ out_call' = [name |-> "set_quality_preset_padding:" \o preset_name,
                    audio |-> Shape(0, 0), blocking |-> FALSE]
    /\ out_ret' = NoReturn
    /\ UNCHANGED <<out_workers, synVars, dspVars, cmVars, textVars>>

\* the enhanced output: padding, fades and timing
OutNext ==
    \/ \E r \in OutSampleRates, c \in OutChannels, p \in PaddingConfigs :
          NewEnhancedAudioOutput(r, c, p)
    \/ \E name \in {"authentic_1986", "modern_retro", "unknown"} :
          SetQualityPresetPadding(name)
    \/ \E audio_data \in OutBuffers : ApplyEnhancedProcessing(audio_data)
    \/ \E audio_data \in OutBuffers : AnalyzeAudioTiming(audio_data)

\* every entry point of the pipeline on empty and non-empty input
PipelineNext ==
    \/ NewVintageDSP(22050, 8)
    \/ NewEnhancedVintageDSP([audio |-> [sample_rate |-> 22050, bit_depth |-> 8],
                              vintage_processing |-> [intensity |-> Scale]])
    \/ \E audio \in {<<>>, <<Scale, -Scale>>} : Process(audio, 0)
    \/ \E phonemes \in {<<>>, <<"AE">>} : Synthesize(phonemes)
    \/ NewAudioOutput(22050, 1)
    \/ NewEnhancedAudioOutput(22050, 1, DefaultPadding)
    \/ \E audio_data \in {Shape(0, 0), Shape(0, 2), Shape(7, 0)},
          blocking \in BOOLEAN, device_ok \in BOOLEAN :
            Play(audio_data, blocking, device_ok)
    \/ \E i \in 1..MaxWorkers, device_ok \in BOOLEAN : AsyncPlaybackWorker(i, device_ok)
    \/ \E i \in 1..MaxWorkers : AsyncPlaybackWorkerEnds(i)
    \/ \E device_ok \in BOOLEAN : Stop(device_ok)

(***************************************************************************)
(* TextProcessor (text_processor.py) and PhonemeConverter                  *)
(* (phoneme_converter.py): the front end that turns raw text into the      *)
(* phoneme list handed to the synthesizer. Text is a string, indexed from  *)
(* 1; the only whitespace the inputs hold is the space.                    *)
(***************************************************************************)
\* s[i-1] and s[i-1:] in Python's indexing
CharAt(s, i) == SubSeq(s, i, i)

Rest(s, i) == SubSeq(s, i, Len(s))

\* `c in class` for a character c and a string of characters
InClass(c, class) == IndexOf(class, c, 1) > 0

LowerCase == "abcdefghijklmnopqrstuvwxyz"

UpperCase == "ABCDEFGHIJKLMNOPQRSTUVWXYZ"

Whitespace == " "

\* ''.join(pieces[lo-1:hi]), halving the range so that long texts nest
\* only a few levels deep
RECURSIVE ConcatRange(_, _, _)
ConcatRange(pieces, lo, hi) ==
    IF lo > hi THEN ""
    ELSE IF lo = hi THEN pieces[lo]
    ELSE LET mid == (lo + hi) \div 2
         IN  ConcatRange(pieces, lo, mid) \o ConcatRange(pieces, mid + 1, hi)

Concat(pieces) == ConcatRange(pieces, 1, Len(pieces))

\* str.upper
upper(s) ==
    Concat([i \in 1..Len(s) |->
                LET k == IndexOf(LowerCase, CharAt(s, i), 1)
                IN  IF k > 0 THEN CharAt(UpperCase, k) ELSE CharAt(s, i)])

\* The first index at or after i whose character is outside class, and the
\* first whose character is inside it; Len(s) + 1 when there is none.
RECURSIVE SkipClass(_, _, _)
SkipClass(s, class, i) ==
    IF i <= Len(s) /\ InClass(CharAt(s, i), class)
    THEN SkipClass(s, class, i + 1) ELSE i

RECURSIVE FindClass(_, _, _)
FindClass(s, class, i) ==
    IF i <= Len(s) /\ ~InClass(CharAt(s, i), class)
    THEN FindClass(s, class, i + 1) ELSE i

\* re.sub(r'[class]+', repl, s): every maximal run is replaced once
SubRuns(s, class, repl) ==
    Concat([i \in 1..Len(s) |->
                IF ~InClass(CharAt(s, i), class) THEN CharAt(s, i)
                ELSE IF i > 1 /\ InClass(CharAt(s, i - 1), class) THEN ""
                ELSE repl])

\* re.sub(r'[class]', repl, s), and s.replace(c, repl) for a class of the
\* one character c: every character of the class is replaced
SubEach(s, class, repl) ==
    Concat([i \in 1..Len(s) |->
                IF InClass(CharAt(s, i), class) THEN repl ELSE CharAt(s, i)])

\* str.replace(old, new), old not empty
RECURSIVE Replace(_, _, _)
Replace(s, old, new) ==
    IF Len(s) < Len(old) THEN s
    ELSE IF StartsWith(s, old)
    THEN new \o Replace(Rest(s, Len(old) + 1), old, new)
    ELSE CharAt(s, 1) \o Replace(Rest(s, 2), old, new)

\* str.rstrip(class), str.lstrip(class), str.strip(class)
RECURSIVE rstrip(_, _)
rstrip(s, class) ==
    IF s # "" /\ InClass(CharAt(s, Len(s)), class)
    THEN rstrip(SubSeq(s, 1, Len(s) - 1), class) ELSE s

lstrip(s, class) == Rest(s, SkipClass(s, class, 1))

strip(s, class) == rstrip(lstrip(s, class), class)

\* str.split() and ' '.join(words)
RECURSIVE split(_)
split(s) ==
    Bind(lstrip(s, Whitespace), LAMBDA t :
        IF t = "" THEN <<>>
        ELSE Bind(FindClass(t, Whitespace, 1), LAMBDA e :
                 <<SubSeq(t, 1, e - 1)>> \o split(Rest(t, e))))

join(words) ==
    Concat([i \in DOMAIN words |->
                IF i = 1 THEN words[i] ELSE " " \o words[i]])

\* A dict literal of the source is the sequence of its items, in the order
\* the source lists them.
HasKey(table, key) == \E i \in DOMAIN table : table[i][1] = key

Lookup(table, key) == table[CHOOSE i \in DOMAIN table : table[i][1] = key][2]

\* for old, new in table.items(): text = text.replace(old, new)
RECURSIVE ReplaceEach(_, _, _)
ReplaceEach(text, table, i) ==
    IF i > Len(table) THEN text
    ELSE Bind(Replace(text, table[i][1], table[i][2]), LAMBDA replaced :
             ReplaceEach(replaced, table, i + 1))

\* string.punctuation, less the grave accent, which no text here holds
string_punctuation == "!\"#$%&'()*+,-./:;<=>?@[\\]^_{|}~"

\* The contractions of _basic_cleanup.
contractions ==
    << <<"WON'T", "WILL NOT">>, <<"CAN'T", "CANNOT">>,
       <<"DON'T", "DO NOT">>, <<"ISN'T", "IS NOT">>,
       <<"AREN'T", "ARE NOT">>, <<"WASN'T", "WAS NOT">>,
       <<"WEREN'T", "WERE NOT">>, <<"HAVEN'T", "HAVE NOT">>,
       <<"HASN'T", "HAS NOT">>, <<"HADN'T", "HAD NOT">>,
       <<"WOULDN'T", "WOULD NOT">>, <<"SHOULDN'T", "SHOULD NOT">>,
       <<"COULDN'T", "COULD NOT">>, <<"MUSTN'T", "MUST NOT">>,
       <<"NEEDN'T", "NEED NOT">>, <<"I'M", "I AM">>,
       <<"YOU'RE", "YOU ARE">>, <<"HE'S", "HE IS">>,
       <<"SHE'S", "SHE IS">>, <<"IT'S", "IT IS">>,
       <<"WE'RE", "WE ARE">>, <<"THEY'RE", "THEY ARE">>,
       <<"I'VE", "I HAVE">>, <<"YOU'VE", "YOU HAVE">>,
       <<"WE'VE", "WE HAVE">>, <<"THEY'VE", "THEY HAVE">>,
       <<"I'LL", "I WILL">>, <<"YOU'LL", "YOU WILL">>,
       <<"HE'LL", "HE WILL">>, <<"SHE'LL", "SHE WILL">>,
       <<"WE'LL", "WE WILL">>, <<"THEY'LL", "THEY WILL">>,
       <<"I'D", "I WOULD">>, <<"YOU'D", "YOU WOULD">>,
       <<"HE'D", "HE WOULD">>, <<"SHE'D", "SHE WOULD">>,
       <<"WE'D", "WE WOULD">>, <<"THEY'D", "THEY WOULD">> >>

\* TextProcessor._basic_cleanup
basic_cleanup(text) ==
    Bind(upper(text), LAMBDA upper_text :
    Bind(strip(upper_text, Whitespace), LAMBDA stripped :
    Bind(SubRuns(stripped, Whitespace, " "), LAMBDA spaced :
        ReplaceEach(spaced, contractions, 1))))

\* TextProcessor._load_abbreviations
abbreviations ==
    << <<"MR.", "MISTER">>, <<"MRS.", "MISSES">>,
       <<"MS.", "MISS">>, <<"DR.", "DRIVE">>,
       <<"PROF.", "PROFESSOR">>, <<"REV.", "REVEREND">>,
       <<"SEN.", "SENATOR">>, <<"REP.", "REPRESENTATIVE">>,
       <<"GEN.", "GENERAL">>, <<"COL.", "COLONEL">>,
       <<"MAJ.", "MAJOR">>, <<"CAPT.", "CAPTAIN">>,
       <<"LT.", "LIEUTENANT">>, <<"SGT.", "SERGEANT">>,
       <<"ETC.", "ET CETERA">>, <<"VS.", "VERSUS">>,
       <<"E.G.", "FOR EXAMPLE">>, <<"I.E.", "THAT IS">>,
       <<"A.M.", "A M">>, <<"P.M.", "P M">>,
       <<"INC.", "INCORPORATED">>, <<"CORP.", "CORPORATION">>,
       <<"LTD.", "LIMITED">>, <<"CO.", "COMPANY">>,
       <<"FT.", "FEET">>, <<"IN.", "INCHES">>,
       <<"LB.", "POUND">>, <<"LBS.", "POUNDS">>,
       <<"OZ.", "OUNCE">>, <<"PT.", "PINT">>,
       <<"QT.", "QUART">>, <<"GAL.", "GALLON">>,
       <<"MPH", "MILES PER HOUR">>, <<"MPG", "MILES PER GALLON">>,
       <<"ST.", "STREET">>, <<"AVE.", "AVENUE">>,
       <<"BLVD.", "BOULEVARD">>, <<"RD.", "ROAD">>,
       <<"CT.", "COURT">>, <<"PL.", "PLACE">>,
       <<"APT.", "APARTMENT">>, <<"CA", "CALIFORNIA">>,
       <<"NY", "NEW YORK">>, <<"TX", "TEXAS">>,
       <<"FL", "FLORIDA">>, <<"IL", "ILLINOIS">>,
       <<"PA", "PENNSYLVANIA">>, <<"OH", "OHIO">>,
       <<"MI", "MICHIGAN">>, <<"WA", "WASHINGTON">>,
       <<"OR", "OREGON">> >>

\* The word loop of _expand_abbreviations.
expand_abbreviation(word) ==
    Bind(rstrip(word, string_punctuation), LAMBDA base_word :
        IF HasKey(abbreviations, word) THEN Lookup(abbreviations, word)
        ELSE IF HasKey(abbreviations, base_word)
        THEN Lookup(abbreviations, base_word) \o Rest(word, Len(base_word) + 1)
        ELSE word)

\* TextProcessor._expand_abbreviations
expand_abbreviations(text) ==
    Bind(split(text), LAMBDA words :
        join([i \in DOMAIN words |-> expand_abbreviation(words[i])]))

\* The ordinals of _load_number_rules.
ordinals ==
    << <<"1ST", "FIRST">>, <<"2ND", "SECOND">>, <<"3RD", "THIRD">>,
       <<"4TH", "FOURTH">>, <<"5TH", "FIFTH">>, <<"6TH", "SIXTH">>,
       <<"7TH", "SEVENTH">>, <<"8TH", "EIGHTH">>, <<"9TH", "NINTH">>,
       <<"10TH", "TENTH">>, <<"11TH", "ELEVENTH">>, <<"12TH", "TWELFTH">>,
       <<"13TH", "THIRTEENTH">>, <<"14TH", "FOURTEENTH">>, <<"15TH", "FIFTEENTH">>,
       <<"16TH", "SIXTEENTH">>, <<"17TH", "SEVENTEENTH">>, <<"18TH", "EIGHTEENTH">>,
       <<"19TH", "NINETEENTH">>, <<"20TH", "TWENTIETH">>, <<"21ST", "TWENTY FIRST">>,
       <<"22ND", "TWENTY SECOND">>, <<"23RD", "TWENTY THIRD">>, <<"30TH", "THIRTIETH">> >>

\* TextProcessor._expand_numbers. No input holds a digit, so no word is
\* purely numeric and number_to_words is never called: what runs is the
\* replacement of the ordinals and the split and join of the words.
expand_numbers(text) ==
    Bind(ReplaceEach(text, ordinals, 1), LAMBDA replaced :
    Bind(split(replaced), LAMBDA words : join(words)))

\* TextProcessor._load_punctuation_rules
punctuation_rules ==
    << <<".", " PERIOD ">>, <<",", " COMMA ">>, <<";", " SEMICOLON ">>,
       <<":", " COLON ">>, <<"!", " EXCLAMATION POINT ">>, <<"?", " QUESTION MARK ">>,
       <<"\"", " QUOTE ">>, <<"'", " APOSTROPHE ">>, <<"(", " OPEN PARENTHESIS ">>,
       <<")", " CLOSE PARENTHESIS ">>, <<"[", " OPEN BRACKET ">>, <<"]", " CLOSE BRACKET ">>,
       <<"{", " OPEN BRACE ">>, <<"}", " CLOSE BRACE ">>, <<"-", " DASH ">>,
       <<"_", " UNDERSCORE ">>, <<"/", " SLASH ">>, <<"\\", " BACKSLASH ">>,
       <<"&", " AND ">>, <<"@", " AT ">>, <<"#", " HASH ">>,
       <<"$", " DOLLAR ">>, <<"%", " PERCENT ">>, <<"*", " ASTERISK ">>,
       <<"+", " PLUS ">>, <<"=", " EQUALS ">>, <<"<", " LESS THAN ">>,
       <<">", " GREATER THAN ">> >>

\* The loop of _process_punctuation over punctuation_rules: the six marks
\* the regular expressions handled are skipped, every other symbol is
\* replaced by its spoken name. Every key is one character and no spoken
\* name holds a symbol, so the replacements act on the characters of the
\* text one by one.
ReplaceSymbols(text) ==
    Concat([i \in 1..Len(text) |->
                LET c == CharAt(text, i)
                IN  IF HasKey(punctuation_rules, c) /\ ~Contains(".!?,;:", c)
                    THEN Lookup(punctuation_rules, c) ELSE c])

\* TextProcessor._process_punctuation
process_punctuation(text) ==
    Bind(SubRuns(text, ".!?", " <PAUSE_LONG> "), LAMBDA long :
    Bind(SubEach(long, ",;", " <PAUSE_SHORT> "), LAMBDA short :
    Bind(SubEach(short, ":", " <PAUSE_MEDIUM> "), LAMBDA medium :
        ReplaceSymbols(medium))))

\* TextProcessor._apply_stress_patterns: both branches append the word as it
\* is, so the text is split and joined.
apply_stress_patterns(text) == Bind(split(text), LAMBDA words : join(words))

\* The last index at or before i whose character is outside class; 0 when
\* there is none.
RECURSIVE SkipClassBack(_, _, _)
SkipClassBack(s, class, i) ==
    IF i >= 1 /\ InClass(CharAt(s, i), class)
    THEN SkipClassBack(s, class, i - 1) ELSE i

\* s[i-1:].startswith(token)
TokenAt(s, token, i) ==
    i >= 1 /\ i + Len(token) - 1 <= Len(s)
    /\ SubSeq(s, i, i + Len(token) - 1) = token

\* re.sub(r'\s*TOKEN\s*', ' TOKEN ', s) for a token that cannot overlap
\* itself: each occurrence is written with one space on either side, and
\* the whitespace that leads up to it or follows it is dropped.
SubPadded(s, token) ==
    Concat([i \in 1..Len(s) |->
                IF TokenAt(s, token, i) THEN " " \o token \o " "
                ELSE IF \E k \in 1..(Len(token) - 1) : TokenAt(s, token, i - k)
                THEN ""
                ELSE IF /\ InClass(CharAt(s, i), Whitespace)
                        /\ \/ TokenAt(s, token, SkipClass(s, Whitespace, i))
                           \/ TokenAt(s, token,
                                      SkipClassBack(s, Whitespace, i)
                                      - Len(token) + 1)
                THEN ""
                ELSE CharAt(s, i)])

\* TextProcessor._final_cleanup
final_cleanup(text) ==
    Bind(SubPadded(text, "<PAUSE_LONG>"), LAMBDA long :
    Bind(SubPadded(long, "<PAUSE_MEDIUM>"), LAMBDA medium :
    Bind(SubPadded(medium, "<PAUSE_SHORT>"), LAMBDA short :
    Bind(strip(short, Whitespace), LAMBDA stripped :
        SubRuns(stripped, Whitespace, " ")))))

\* TextProcessor.normalize
normalize(text) ==
    Bind(basic_cleanup(text), LAMBDA cleaned :
    Bind(expand_abbreviations(cleaned), LAMBDA abbreviated :
    Bind(expand_numbers(abbreviated), LAMBDA numbered :
    Bind(process_punctuation(numbered), LAMBDA punctuated :
    Bind(apply_stress_patterns(punctuated), LAMBDA stressed :
        final_cleanup(stressed))))))

\* PhonemeConverter._load_vowel_rules
vowel_rules ==
    << <<"A", "AE">>, <<"E", "EH">>, <<"I", "IH">>, <<"O", "AO">>, <<"U", "AH">>, <<"Y", "IH">> >>

\* PhonemeConverter._load_consonant_rules
consonant_rules ==
    << <<"B", <<"B">>>>, <<"C", <<"K">>>>, <<"D", <<"D">>>>, <<"F", <<"F">>>>,
       <<"G", <<"G">>>>, <<"H", <<"HH">>>>, <<"J", <<"JH">>>>, <<"K", <<"K">>>>,
       <<"L", <<"L">>>>, <<"M", <<"M">>>>, <<"N", <<"N">>>>, <<"P", <<"P">>>>,
       <<"Q", <<"K", "W">>>>, <<"R", <<"R">>>>, <<"S", <<"S">>>>, <<"T", <<"T">>>>,
       <<"V", <<"V">>>>, <<"W", <<"W">>>>, <<"X", <<"K", "S">>>>, <<"Z", <<"Z">>>> >>

\* PhonemeConverter._load_digraph_rules
digraph_rules ==
    << <<"CH", <<"CH">>>>, <<"SH", <<"SH">>>>, <<"TH", <<"TH">>>>, <<"WH", <<"W">>>>,
       <<"PH", <<"F">>>>, <<"GH", <<"F">>>>, <<"CK", <<"K">>>>, <<"NG", <<"NG">>>>,
       <<"AI", <<"EY">>>>, <<"AY", <<"EY">>>>, <<"EA", <<"IY">>>>, <<"EE", <<"IY">>>>,
       <<"EI", <<"EY">>>>, <<"EY", <<"EY">>>>, <<"IE", <<"IY">>>>, <<"OA", <<"OW">>>>,
       <<"OO", <<"UW">>>>, <<"OU", <<"AW">>>>, <<"OW", <<"AW">>>>, <<"OY", <<"OY">>>>,
       <<"UI", <<"UW">>>>, <<"UE", <<"UW">>>>, <<"AU", <<"AO">>>>, <<"AW", <<"AO">>>>,
       <<"EW", <<"UW">>>>, <<"OI", <<"OY">>>>, <<"QU", <<"K", "W">>>>, <<"SC", <<"S">>>>,
       <<"KN", <<"N">>>>, <<"WR", <<"R">>>>, <<"MB", <<"M">>>>, <<"BT", <<"T">>>> >>

\* PhonemeConverter._load_exception_words
exception_words ==
    << <<"THE", <<"DH", "AH">>>>,
       <<"A", <<"AH">>>>,
       <<"AN", <<"AE", "N">>>>,
       <<"AND", <<"AE", "N", "D">>>>,
       <<"OF", <<"AH", "V">>>>,
       <<"TO", <<"T", "UW">>>>,
       <<"IN", <<"IH", "N">>>>,
       <<"IS", <<"IH", "Z">>>>,
       <<"IT", <<"IH", "T">>>>,
       <<"FOR", <<"F", "AO", "R">>>>,
       <<"AS", <<"AE", "Z">>>>,
       <<"WITH", <<"W", "IH", "TH">>>>,
       <<"HIS", <<"HH", "IH", "Z">>>>,
       <<"HER", <<"HH", "ER">>>>,
       <<"HIM", <<"HH", "IH", "M">>>>,
       <<"HAS", <<"HH", "AE", "Z">>>>,
       <<"HAD", <<"HH", "AE", "D">>>>,
       <<"HAVE", <<"HH", "AE", "V">>>>,
       <<"BE", <<"B", "IY">>>>,
       <<"BEEN", <<"B", "IH", "N">>>>,
       <<"WAS", <<"W", "AH", "Z">>>>,
       <<"WERE", <<"W", "ER">>>>,
       <<"ARE", <<"AA", "R">>>>,
       <<"WHAT", <<"W", "AH", "T">>>>,
       <<"WHEN", <<"W", "EH", "N">>>>,
       <<"WHERE", <<"W", "EH", "R">>>>,
       <<"WHO", <<"HH", "UW">>>>,
       <<"WHY", <<"W", "AY">>>>,
       <<"HOW", <<"HH", "AW">>>>,
       <<"WOULD", <<"W", "UH", "D">>>>,
       <<"COULD", <<"K", "UH", "D">>>>,
       <<"SHOULD", <<"SH", "UH", "D">>>>,
       <<"ONE", <<"W", "AH", "N">>>>,
       <<"TWO", <<"T", "UW">>>>,
       <<"THREE", <<"TH", "R", "IY">>>>,
       <<"FOUR", <<"F", "AO", "R">>>>,
       <<"FIVE", <<"F", "AY", "V">>>>,
       <<"SIX", <<"S", "IH", "K", "S">>>>,
       <<"SEVEN", <<"S", "EH", "V", "AH", "N">>>>,
       <<"EIGHT", <<"EY", "T">>>>,
       <<"NINE", <<"N", "AY", "N">>>>,
       <<"TEN", <<"T", "EH", "N">>>>,
       <<"ELEVEN", <<"IH", "L", "EH", "V", "AH", "N">>>>,
       <<"TWELVE", <<"T", "W", "EH", "L", "V">>>>,
       <<"COMPUTER", <<"K", "AH", "M", "P", "Y", "UW", "T", "ER">>>>,
       <<"PROGRAM", <<"P", "R", "OW", "G", "R", "AE", "M">>>>,
       <<"SYSTEM", <<"S", "IH", "S", "T", "AH", "M">>>>,
       <<"MACHINE", <<"M", "AH", "SH", "IY", "N">>>>,
       <<"DEVICE", <<"D", "IH", "V", "AY", "S">>>>,
       <<"NETWORK", <<"N", "EH", "T", "W", "ER", "K">>>>,
       <<"SOFTWARE", <<"S", "AO", "F", "T", "W", "EH", "R">>>>,
       <<"HARDWARE", <<"HH", "AA", "R", "D", "W", "EH", "R">>>>,
       <<"MEMORY", <<"M", "EH", "M", "ER", "IY">>>>,
       <<"PROCESSOR", <<"P", "R", "AA", "S", "EH", "S", "ER">>>>,
       <<"TECHNOLOGY", <<"T", "EH", "K", "N", "AA", "L", "AH", "JH", "IY">>>>,
       <<"ELECTRONIC", <<"IH", "L", "EH", "K", "T", "R", "AA", "N", "IH", "K">>>>,
       <<"DIGITAL", <<"D", "IH", "JH", "IH", "T", "AH", "L">>>>,
       <<"INTERFACE", <<"IH", "N", "T", "ER", "F", "EY", "S">>>>,
       <<"INFORMATION", <<"IH", "N", "F", "ER", "M", "EY", "SH", "AH", "N">>>>,
       <<"ZERO", <<"Z", "IH", "R", "OW">>>>,
       <<"HUNDRED", <<"HH", "AH", "N", "D", "R", "AH", "D">>>>,
       <<"THOUSAND", <<"TH", "AW", "Z", "AH", "N", "D">>>>,
       <<"MILLION", <<"M", "IH", "L", "Y", "AH", "N">>>>,
       <<"BILLION", <<"B", "IH", "L", "Y", "AH", "N">>>>,
       <<"KNIFE", <<"N", "AY", "F">>>>,
       <<"KNOW", <<"N", "OW">>>>,
       <<"KNEE", <<"N", "IY">>>>,
       <<"WRITE", <<"R", "AY", "T">>>>,
       <<"WRONG", <<"R", "AO", "NG">>>>,
       <<"LAMB", <<"L", "AE", "M">>>>,
       <<"THUMB", <<"TH", "AH", "M">>>>,
       <<"DEBT", <<"D", "EH", "T">>>>,
       <<"DOUBT", <<"D", "AW", "T">>>>,
       <<"ISLAND", <<"AY", "L", "AH", "N", "D">>>>,
       <<"LISTEN", <<"L", "IH", "S", "AH", "N">>>>,
       <<"CASTLE", <<"K", "AE", "S", "AH", "L">>>>,
       <<"CHRISTMAS", <<"K", "R", "IH", "S", "M", "AH", "S">>>>,
       <<"WEDNESDAY", <<"W", "EH", "N", "Z", "D", "EY">>>>,
       <<"FEBRUARY", <<"F", "EH", "B", "R", "UW", "EH", "R", "IY">>>> >>

Vowels == "AEIOU"

\* PhonemeConverter._apply_vowel_rules, pos counted from 1
apply_vowel_rules(word, pos) ==
    LET vowel == CharAt(word, pos)
        next_char == IF pos < Len(word) THEN CharAt(word, pos + 1) ELSE ""
        next2_char == IF pos < Len(word) - 1 THEN CharAt(word, pos + 2) ELSE ""
    IN  IF /\ pos = Len(word) /\ vowel = "E"
           /\ Len(word) > 1 /\ ~InClass(CharAt(word, pos - 1), Vowels)
        THEN "SIL"
        ELSE IF /\ pos < Len(word) - 1 /\ next2_char = "E"
                /\ ~InClass(next_char, Vowels) /\ InClass(vowel, "AIOU")
        THEN CASE vowel = "A" -> "EY"
               [] vowel = "I" -> "AY"
               [] vowel = "O" -> "OW"
               [] vowel = "U" -> "UW"
        ELSE IF HasKey(vowel_rules, vowel) THEN Lookup(vowel_rules, vowel)
        ELSE vowel

\* PhonemeConverter._apply_phoneme_rules, from letter i on
RECURSIVE apply_phoneme_rules(_, _)
apply_phoneme_rules(word, i) ==
    IF i > Len(word) THEN <<>>
    ELSE IF i < Len(word) /\ HasKey(digraph_rules, SubSeq(word, i, i + 1))
    THEN Lookup(digraph_rules, SubSeq(word, i, i + 1))
         \o apply_phoneme_rules(word, i + 2)
    ELSE LET letter == CharAt(word, i)
         IN  (IF InClass(letter, Vowels) THEN <<apply_vowel_rules(word, i)>>
              ELSE IF HasKey(consonant_rules, letter)
              THEN Lookup(consonant_rules, letter)
              ELSE <<letter>>)
             \o apply_phoneme_rules(word, i + 1)

\* re.sub(r'[^\w]', '', s)
WordCharsOf(s) ==
    Concat([i \in 1..Len(s) |->
                IF InClass(CharAt(s, i), UpperCase \o LowerCase \o "0123456789_")
                THEN CharAt(s, i) ELSE ""])

\* PhonemeConverter._convert_word
convert_word(word) ==
    IF StartsWith(word, "<PAUSE") THEN <<word>>
    ELSE Bind(upper(word), LAMBDA upper_word :
         Bind(WordCharsOf(upper_word), LAMBDA clean_word :
             IF clean_word = "" THEN <<>>
             ELSE IF HasKey(exception_words, clean_word)
             THEN Lookup(exception_words, clean_word)
             ELSE apply_phoneme_rules(clean_word, 1)))

\* PhonemeConverter.convert
\* The loop of convert, from word i on.
RECURSIVE ConvertWords(_, _)
ConvertWords(words, i) ==
    IF i > Len(words) THEN <<>>
    ELSE convert_word(words[i]) \o ConvertWords(words, i + 1)

convert(text) == Bind(split(text), LAMBDA words : ConvertWords(words, 1))

\* longest raw text, in characters
MaxText == 3

\* Characters the raw texts are drawn from: two letters, one of them lower
\* case, the space, the full stop, the comma and the colon.
TextChars == {"M", "r", " ", ".", ",", ":"}

RECURSIVE TextsUpTo(_)
TextsUpTo(n) ==
    IF n = 0 THEN {""}
    ELSE LET shorter == TextsUpTo(n - 1)
         IN  shorter \cup {s \o c : s \in {t \in shorter : Len(t) = n - 1},
                                    c \in TextChars}

TextInputs == TextsUpTo(MaxText)

TextInit ==
    /\ text_call = ""
    /\ text_input = ""
    /\ text_normalized = ""
    /\ text_phonemes = <<>>

\* normalized = TextProcessor().normalize(text). Neither object keeps
\* anything from one text to the next, so a run takes one text through.
Normalize(text) ==
    /\ text_call = ""
    /\ text_call' = "normalize"
    /\ text_input' = text
    /\ text_normalized' = normalize(text)
    /\ text_phonemes' = <<>>
    /\ UNCHANGED <<synVars, dspVars, cmVars, outVars>>

\* phonemes = PhonemeConverter().convert(normalized)
Convert ==
    /\ text_call = "normalize"
    /\ text_call' = "convert"
    /\ text_phonemes' = convert(text_normalized)
    /\ UNCHANGED <<text_input, text_normalized>>
    /\ UNCHANGED <<synVars, dspVars, cmVars, outVars>>

TextNext ==
    \/ \E text \in TextInputs : Normalize(text)
    \/ Convert

Init ==
    SynInit /\ DspInit /\ CmInit /\ OutInit /\ TextInit /\ uint8_wraps = FALSE

SpecSyn == Init /\ [][SynNext]_vars

\* the signal chain, on a build of either kind
DspBuildInit ==
    SynInit /\ DspInit /\ CmInit /\ OutInit /\ TextInit /\ uint8_wraps \in BOOLEAN

SpecDsp == DspBuildInit /\ [][DspNext]_vars

\* the stages and the entry points called one by one on short buffers
SpecStage == DspBuildInit /\ [][StageNext]_vars

\* the configuration manager with the DSP object built from its configuration
SpecCfg == Init /\ [][CfgNext]_vars

\* the configuration manager on its own: presets, single values and files,
\* well-formed and not
ConfigNext ==
    \/ \E presets \in {EmptyDict, PresetStore} : NewConfigManager(presets)
    \/ \E b \in BitDepthInputs : SetConfig("audio", "bit_depth", b)
    \/ \E i \in IntensityInputs : SetConfig("vintage_processing", "intensity", i)
    \/ SetConfig("advanced", "spectral_enhancement", FALSE)
    \/ SetConfig("version", "major", 2)
    \/ \E preset_name \in {"authentic_1986", "modern_retro", "missing"} :
          LoadPreset(preset_name)
    \/ \E readable \in BOOLEAN, doc \in ConfigFiles \cup {TextRateFile} :
          LoadConfigFile(readable, doc)

SpecConfig == Init /\ [][ConfigNext]_vars

\* _synthesize_diphone called on its own for every diphone name
FormantNext ==
    \/ \E rate \in FormantRates : NewSynthesizer(rate)
    \/ \E diphone \in DiphoneNames : SynthesizeDiphone(diphone)

SpecFormant == Init /\ [][FormantNext]_vars

\* utterances and single diphones, with and without a symbol that has no
\* entry in the tables
UnknownNext ==
    \/ \E rate \in SampleRates : NewSynthesizer(rate)
    \/ \E phonemes \in PhonemeInputs : Synthesize(phonemes)
    \/ \E diphone \in DiphoneNames : SynthesizeDiphone(diphone)

SpecUnknown == Init /\ [][UnknownNext]_vars

\* the objects, buffers and utterances of repeated calls
CallConfigs ==
    {[audio |-> [sample_rate |-> 22050, bit_depth |-> 8],
      vintage_processing |-> [intensity |-> Scale]],
     [audio |-> [sample_rate |-> 22050, bit_depth |-> 16],
      vintage_processing |-> [intensity |-> (5 * Scale) \div 10],
      advanced |-> [harmonic_enrichment |-> TRUE, noise_reduction |-> TRUE,
                    temporal_smoothing |-> TRUE]]}

CallInputs ==
    {<<>>, <<Scale, -Scale>>, <<Scale, Scale, 0, 0, 0, 0, -Scale, Scale \div 2>>}

CallUtterances ==
    {<<>>, <<"AE">>, <<"AE", "N">>, <<"N", "<PAUSE_SHORT>", "AE">>}

\* process and synthesize called again and again on the same objects
CallsNext ==
    \/ \E b \in {8, 16} : NewVintageDSP(22050, b)
    \/ \E config \in CallConfigs : NewEnhancedVintageDSP(config)
    \/ \E audio \in CallInputs, z \in NoiseDraws : Process(audio, z)
    \/ \E rate \in SampleRates : NewSynthesizer(rate)
    \/ \E phonemes \in CallUtterances : Synthesize(phonemes)

SpecCalls == DspBuildInit /\ [][CallsNext]_vars

SpecOut == Init /\ [][OutNext]_vars

SpecPipeline == Init /\ [][PipelineNext]_vars

(***************************************************************************)
(* ZPaytzoEngineRev2 (main_rev2.py): the configuration manager, the        *)
(* synthesizer, the DSP object and the audio output of one engine.  An     *)
(* engine has been constructed when the DSP object is an                   *)
(* EnhancedVintageDSP.  The attributes audio_config, sample_rate,          *)
(* bit_depth and channels of the engine are copies of values of            *)
(* current_config and are not held apart.                                  *)
(***************************************************************************)
\* config_manager.get_padding_config(), which main_rev2.py calls and
\* config_manager.py of the sources does not define: taken to return the
\* padding an EnhancedAudioOutput has by default
get_padding_config == DefaultPadding

\* self.vintage_dsp.update_config(full_config)
VintageDspUpdated(full_config) ==
    /\ dsp' = update_config(dsp, full_config)
    /\ dsp_call' = "update_config"
    /\ dsp_audio' = <<>>
    /\ dsp_noise' = 0
    /\ dsp_stages' = <<>>
    /\ dsp_result' = Ok(<<>>)

\* self.audio_output = EnhancedAudioOutput(sample_rate=..., channels=..., ...)
AudioOutputRebuilt(sample_rate, channels) ==
    /\ out' = EnhancedAudioOutput(sample_rate, channels, get_padding_config)
    /\ out_call' = NoCall
    /\ out_ret' = NoReturn
    /\ UNCHANGED out_workers

DspUnchanged ==
    UNCHANGED <<dsp, dsp_call, dsp_audio, dsp_noise, dsp_result, dsp_stages>>

\* ZPaytzoEngineRev2(): the manager with the fallback configuration and the
\* presets of config/presets, and the pipeline built from its configuration
ZPaytzoEngineRev2(presets) ==
    /\ out_workers = <<>>
    /\ cm_current_config' = FallbackConfig
    /\ cm_available_presets' = presets
    /\ cm_alias' = EmptyDict
    /\ cm_call' = "init"
    /\ cm_ret' = TRUE
    /\ LET audio_config == Get(FallbackConfig, "audio", EmptyDict)
           sample_rate == Get(audio_config, "sample_rate", 22050)
       IN  /\ syn_sample_rate' = sample_rate
           /\ AudioOutputRebuilt(sample_rate, Get(audio_config, "channels", 1))
    /\ syn_phoneme_durations' = LoadedDurations
    /\ syn_formant_frequencies' = LoadedFormants
    /\ syn_call' = "init"
    /\ syn_phonemes' = <<>>
    /\ syn_diphones' = <<>>
    /\ syn_segments' = <<>>
    /\ syn_buffer_len' = 0
    /\ syn_audio_len' = 0
    /\ syn_contours' = NoContours
    /\ dsp' = EnhancedVintageDSP(FallbackConfig)
    /\ dsp_call' = "init"
    /\ dsp_audio' = <<>>
    /\ dsp_noise' = 0
    /\ dsp_stages' = <<>>
    /\ dsp_result' = Ok(<<>>)
    /\ UNCHANGED <<uint8_wraps, textVars>>

\* engine.set_preset(preset_name)
SetPreset(preset_name) ==
    /\ dsp.kind = "EnhancedVintageDSP"
    /\ load_preset(preset_name)
    /\ IF cm_ret'
       THEN /\ VintageDspUpdated(cm_current_config')
            /\ AudioOutputRebuilt(
                   Get(Get(cm_current_config', "audio", EmptyDict),
                       "sample_rate", 22050),
                   out.channels)
       ELSE DspUnchanged /\ UNCHANGED outVars
    /\ UNCHANGED <<uint8_wraps, synVars, textVars>>

\* engine.configure(section, key, value)
Configure(section, key, value) ==
    /\ dsp.kind = "EnhancedVintageDSP"
    /\ set_config(section, key, value)
    /\ IF cm_ret' /\ section = "audio"
          /\ key \in {"sample_rate", "channels", "buffer_size"}
       THEN LET audio_config == Get(cm_current_config', "audio", EmptyDict)
            IN  /\ AudioOutputRebuilt(Get(audio_config, "sample_rate", 22050),
                                      Get(audio_config, "channels", 1))
                /\ DspUnchanged
       ELSE IF cm_ret' /\ section \in {"vintage_processing", "advanced"}
       THEN VintageDspUpdated(cm_current_config') /\ UNCHANGED outVars
       ELSE DspUnchanged /\ UNCHANGED outVars
    /\ UNCHANGED <<uint8_wraps, synVars, textVars>>

\* an engine, its presets switched and single values configured
EngineNext ==
    \/ \E presets \in {EmptyDict, PresetStore} : ZPaytzoEngineRev2(presets)
    \/ \E preset_name \in {"authentic_1986", "modern_retro", "missing"} :
          SetPreset(preset_name)
    \/ \E b \in {12, 16} : Configure("audio", "bit_depth", b)
    \/ Configure("audio", "sample_rate", 44100)
    \/ \E i \in {0, (5 * Scale) \div 10} :
          Configure("vintage_processing", "intensity", i)
    \/ Configure("vintage_processing", "analog_simulation", FALSE)
    \/ \E v \in BOOLEAN : Configure("advanced", "spectral_enhancement", v)

SpecEngine == Init /\ [][EngineNext]_vars

\* play, stop and the worker threads of one output, interleaved
PlaybackNext ==
    \/ NewAudioOutput(22050, 1)
    \/ \E audio_data \in {Shape(0, 0), Shape(7, 0), Shape(7, 2)},
          blocking \in BOOLEAN, device_ok \in BOOLEAN :
            Play(audio_data, blocking, device_ok)
    \/ \E i \in 1..MaxWorkers, device_ok \in BOOLEAN : AsyncPlaybackWorker(i, device_ok)
    \/ \E i \in 1..MaxWorkers : AsyncPlaybackWorkerEnds(i)
    \/ \E device_ok \in BOOLEAN : Stop(device_ok)

SpecText == Init /\ [][TextNext]_vars

SpecPlayback == Init /\ [][PlaybackNext]_vars

\* a started thread is scheduled, and the wait of a playing one ends
WorkersProgress ==
    \A i \in 1..MaxWorkers :
        /\ WF_vars(\E device_ok \in BOOLEAN : AsyncPlaybackWorker(i, device_ok))
        /\ WF_vars(AsyncPlaybackWorkerEnds(i))

SpecPlaybackFair == SpecPlayback /\ WorkersProgress

(***************************************************************************)
(* Properties of the diphone sequencer and the synthesizer.                *)
(***************************************************************************)
Sequenced == syn_call \in {"phonemes_to_diphones", "synthesize"} /\ syn_phonemes # <<>>

PauseFree(phonemes) == \A i \in 1..Len(phonemes) : ~IsPause(phonemes[i])

\* the start phoneme's entry of the duration table, or the base duration
StartEntry(start_phoneme) ==
    IF start_phoneme \in DOMAIN PhonemeDurations
    THEN PhonemeDurations[start_phoneme]
    ELSE BaseDurationMs

\* C3: the unit emitted for an adjacent pair with a pause on either side is a
\* pause marker, and every unit of the output is a pause marker or a diphone
\* 'a-b' of two non-pause symbols.
C3_PausePairEmitsPause ==
    Sequenced =>
        LET lead == IF ~IsPause(syn_phonemes[1]) THEN 1 ELSE 0
        IN  /\ \A i \in 1..(Len(syn_phonemes) - 1) :
                   (IsPause(syn_phonemes[i]) \/ IsPause(syn_phonemes[i + 1]))
                       => IsPause(syn_diphones[i + lead])
            /\ \A k \in 1..Len(syn_diphones) :
                   \/ IsPause(syn_diphones[k])
                   \/ /\ IndexOf(syn_diphones[k], "-", 1) > 0
                      /\ ~IsPause(ParseDiphone(syn_diphones[k]).start)
                      /\ ~IsPause(ParseDiphone(syn_diphones[k]).end)

\* the length C4 states: the diphones between non-pause neighbours, the
\* leading and trailing silence transitions, and every pause of the input
C4_StatedLen(phonemes, rate) ==
    LET n == Len(phonemes)
    IN  (IF ~IsPause(phonemes[1])
         THEN NumSamples(get_diphone_duration(PhonemeDurations, "SIL", phonemes[1]), rate) ELSE 0)
        + SumSeq([i \in 1..(n - 1) |->
                    IF ~IsPause(phonemes[i]) /\ ~IsPause(phonemes[i + 1])
                    THEN NumSamples(get_diphone_duration(PhonemeDurations, phonemes[i],
                                                    phonemes[i + 1]), rate)
                    ELSE 0])
        + (IF ~IsPause(phonemes[n])
           THEN NumSamples(get_diphone_duration(PhonemeDurations, phonemes[n], "SIL"), rate) ELSE 0)
        + SumSeq([i \in 1..n |->
                    IF IsPause(phonemes[i])
                    THEN NumSamples(get_pause_duration(phonemes[i]), rate)
                    ELSE 0])

\* C4: the buffer synthesize returns for a non-empty input is as long as the
\* diphones between non-pause neighbours plus every pause of the input.
C4_LengthCountsEveryPause ==
    (syn_call = "synthesize" /\ syn_phonemes # <<>>)
        => syn_audio_len = C4_StatedLen(syn_phonemes, syn_sample_rate)

\* C5: a pause-free input p1..pn yields the n+1 diphones SIL-p1, p1-p2, ...,
\* pn-SIL, each ending where the next starts; the empty input yields nothing.
C5_PauseFreeChain ==
    (syn_call = "phonemes_to_diphones" /\ PauseFree(syn_phonemes)) =>
        LET n == Len(syn_phonemes)
            startOf(k) == IF k = 1 THEN "SIL" ELSE syn_phonemes[k - 1]
            endOf(k) == IF k = n + 1 THEN "SIL" ELSE syn_phonemes[k]
        IN  IF n = 0 THEN syn_diphones = <<>>
            ELSE /\ Len(syn_diphones) = n + 1
                 /\ \A k \in 1..(n + 1) :
                        /\ syn_diphones[k] = startOf(k) \o "-" \o endOf(k)
                        /\ ParseDiphone(syn_diphones[k]) =
                               [start |-> startOf(k), end |-> endOf(k)]
                 /\ \A k \in 1..n :
                        ParseDiphone(syn_diphones[k]).end =
                            ParseDiphone(syn_diphones[k + 1]).start

C5_Witness ==
    /\ syn_call = "phonemes_to_diphones"
    /\ syn_phonemes = <<"AE", "N">>
    /\ syn_diphones = <<"SIL-AE", "AE-N", "N-SIL">>

\* C6 as stated: every synthesized segment has round(duration * sampleRate)
\* samples, rounded to nearest.
C6_SegmentLenRounded ==
    syn_call = "synthesize" =>
        \A k \in 1..Len(syn_segments) :
            ~syn_segments[k].pause =>
                syn_segments[k].n = RoundNearest(syn_segments[k].duration, syn_sample_rate)

\* C6: every synthesized segment has floor(duration * sampleRate) samples:
\* the product is truncated, not rounded.
C6_SegmentLenTruncated ==
    syn_call = "synthesize" =>
        \A k \in 1..Len(syn_segments) :
            ~syn_segments[k].pause =>
                /\ syn_segments[k].n * 1000 <= syn_segments[k].duration * syn_sample_rate
                /\ syn_segments[k].duration * syn_sample_rate < (syn_segments[k].n + 1) * 1000

C6_Witness ==
    /\ syn_call = "synthesize"
    /\ \E k \in 1..Len(syn_segments) :
           /\ ~syn_segments[k].pause
           /\ (syn_segments[k].duration * syn_sample_rate) % 1000 = 500
           /\ syn_segments[k].n = 661

\* C7: with no SIL on either side the duration is the start phoneme's table
\* entry (the base 80 ms for an unknown start), whatever the end phoneme:
\* two diphones with the same start last equally long, and AE-N lasts 100 ms.
C7_DurationKeyedOnStart ==
    syn_call = "synthesize" =>
        /\ \A k \in 1..Len(syn_segments) :
               (/\ ~syn_segments[k].pause
                /\ syn_segments[k].start # "SIL"
                /\ syn_segments[k].end # "SIL")
                   => /\ syn_segments[k].duration = StartEntry(syn_segments[k].start)
                      /\ (syn_segments[k].unit = "AE-N" => syn_segments[k].duration = 100)
                      /\ (syn_segments[k].start = "XX" => syn_segments[k].duration = 80)
        /\ \A j, k \in 1..Len(syn_segments) :
               (/\ ~syn_segments[j].pause /\ ~syn_segments[k].pause
                /\ syn_segments[j].start = syn_segments[k].start
                /\ syn_segments[j].start # "SIL"
                /\ syn_segments[j].end # "SIL" /\ syn_segments[k].end # "SIL")
                   => syn_segments[j].duration = syn_segments[k].duration

C7_Witness ==
    /\ syn_call = "synthesize"
    /\ \E j, k \in 1..Len(syn_segments) :
           /\ syn_segments[j].unit = "AE-AE"
           /\ syn_segments[k].unit = "AE-N"
           /\ syn_segments[j].duration = 100
           /\ syn_segments[k].duration = 100

\* C8 as stated: a diphone touching SIL lasts half of the start phoneme's
\* table entry, so AE-SIL lasts 50 ms.
C8_SilHalvesTableEntry ==
    syn_call = "synthesize" =>
        \A k \in 1..Len(syn_segments) :
            (~syn_segments[k].pause
             /\ (syn_segments[k].start = "SIL" \/ syn_segments[k].end = "SIL"))
                => /\ 2 * syn_segments[k].duration = StartEntry(syn_segments[k].start)
                   /\ (syn_segments[k].unit = "AE-SIL" => syn_segments[k].duration = 50)

\* C8: a diphone touching SIL lasts half of the base duration, 40 ms,
\* whatever the start phoneme's table entry; AE-SIL lasts 40 ms.
C8_SilHalvesBase ==
    syn_call = "synthesize" =>
        \A k \in 1..Len(syn_segments) :
            (~syn_segments[k].pause
             /\ (syn_segments[k].start = "SIL" \/ syn_segments[k].end = "SIL"))
                => /\ 2 * syn_segments[k].duration = BaseDurationMs
                   /\ syn_segments[k].duration = 40

C8_Witness ==
    /\ syn_call = "synthesize"
    /\ \E k \in 1..Len(syn_segments) :
           /\ syn_segments[k].unit = "AE-SIL"
           /\ syn_segments[k].start = "AE"
           /\ syn_segments[k].end = "SIL"
           /\ syn_segments[k].duration = 40

(***************************************************************************)
(* Properties of the signal chain and of its configuration.                *)
(***************************************************************************)
\* a valid configuration: sample rate 8000..48000, bit depth 8, 12 or 16,
\* intensity in [0, 1]
ValidBitDepth(self) == self.bit_depth \in {8, 12, 16}

ValidIntensity(self) ==
    self.kind = "EnhancedVintageDSP" =>
        self.vintage_intensity >= 0 /\ self.vintage_intensity <= Scale

ValidConfiguration(self) ==
    /\ self.sample_rate >= 8000 /\ self.sample_rate <= 48000
    /\ ValidBitDepth(self)
    /\ ValidIntensity(self)

\* every sample lies in [-1.0, 1.0]
InRange(audio) == \A i \in 1..Len(audio) : audio[i] >= -Scale /\ audio[i] <= Scale

AdvancedFlagsOff(self) ==
    /\ ~self.spectral_enhancement
    /\ ~self.harmonic_enrichment
    /\ ~self.noise_reduction
    /\ ~self.temporal_smoothing

\* C1: for every valid configuration and every input buffer with samples in
\* [-1, 1], every sample process returns (VintageDSP.process and
\* EnhancedVintageDSP.process) lies in [-1.0, 1.0].
C1_FullChainInRange ==
    (/\ dsp_call = "process"
     /\ ValidConfiguration(dsp)
     /\ InRange(dsp_audio)
     /\ dsp_result.err = "")
    => InRange(dsp_result.x)

\* C2: process never runs on an object whose bit depth is outside {8, 12, 16}
\* or whose vintage intensity is outside [0, 1], whatever set_config,
\* load_preset, load_config_file, construction, update_config and
\* set_bit_depth calls came before.
C2_ProcessRunsValidated ==
    dsp_call = "process" => ValidBitDepth(dsp) /\ ValidIntensity(dsp)

\* what _apply_bit_crushing returns for a sample quantized to level / 127,
\* the noise of the call added
CrushedAt8Bits(level) ==
    RoundDiv(level * Scale, 127) + dsp_noise * RoundDiv(Scale, 2 * Pow2(8))

\* C9 as stated: with bit_depth = 8 the quantization step of
\* _apply_bit_crushing maps the sample 0.5 to 63/127 = 0.4961, before the noise
\* is added.
C9_HalfQuantizesTo63 ==
    (dsp_call = "apply_bit_crushing" /\ dsp.bit_depth = 8 /\ dsp_result.err = "")
    => \A i \in 1..Len(dsp_audio) :
          dsp_audio[i] = Scale \div 2 => dsp_result.x[i] = CrushedAt8Bits(63)

\* C9 as the code has it: with bit_depth = 8 the quantization step of
\* _apply_bit_crushing maps the sample 0.5 to round(63.5)/127 = 64/127 = 0.5039,
\* before the noise is added.
C9_HalfQuantizesTo64 ==
    (dsp_call = "apply_bit_crushing" /\ dsp.bit_depth = 8 /\ dsp_result.err = "")
    => \A i \in 1..Len(dsp_audio) :
          dsp_audio[i] = Scale \div 2 => dsp_result.x[i] = CrushedAt8Bits(64)

\* _apply_bit_crushing ran at 8 bits on the sample 0.5 and drew no noise
C9_Witness ==
    /\ dsp_call = "apply_bit_crushing"
    /\ dsp.bit_depth = 8
    /\ dsp_audio = <<Scale \div 2>>
    /\ dsp_noise = 0
    /\ dsp_result = Ok(<<RoundDiv(64 * Scale, 127)>>)

\* C10: at bit_depth = 16 and vintage intensity 0, the advanced flags off,
\* EnhancedVintageDSP.process returns the input buffer sample for sample.
C10_CleanPathIsIdentity ==
    (/\ dsp_call = "process"
     /\ dsp.kind = "EnhancedVintageDSP"
     /\ dsp.bit_depth = 16
     /\ dsp.vintage_intensity = 0
     /\ AdvancedFlagsOff(dsp))
    => dsp_result = Ok(dsp_audio)

\* process ran on such an object, enabled and with a preset that filters,
\* and returned a buffer of two different samples as it was
C10_Witness ==
    /\ dsp_call = "process"
    /\ dsp.kind = "EnhancedVintageDSP"
    /\ dsp.bit_depth = 16
    /\ dsp.vintage_intensity = 0
    /\ dsp.vintage_enabled
    /\ dsp.vintage_preset = "subtle_vintage"
    /\ AdvancedFlagsOff(dsp)
    /\ dsp_audio = <<Scale, -Scale>>
    /\ dsp_result = Ok(<<Scale, -Scale>>)

\* the fully processed signal V of a call of EnhancedVintageDSP.process: what
\* the stages the object has switched on make of the buffer, nothing blended
FullyProcessed(self, audio, z, wrap) ==
    LET a1 == IF self.spectral_enhancement
              THEN apply_spectral_enhancement(self, audio)
              ELSE Ok(audio)
        a2 == IF self.harmonic_enrichment
              THEN Then(a1, LAMBDA a : apply_harmonic_enrichment(a))
              ELSE a1
        a3 == Then(a2, LAMBDA a : apply_vintage_chain_stages(self, a, z, wrap))
        a4 == IF self.noise_reduction
              THEN Then(a3, LAMBDA a : apply_noise_reduction(a))
              ELSE a3
    IN  IF self.temporal_smoothing
        THEN Then(a4, LAMBDA a : apply_temporal_smoothing(a))
        ELSE a4

\* one thousandth of full scale, the tolerance the spec gives its round trip
Tolerance == Scale \div 1000

\* process blended on a non-empty buffer and returned
BlendedCall ==
    /\ dsp_call = "process"
    /\ dsp.kind = "EnhancedVintageDSP"
    /\ dsp.vintage_enabled
    /\ dsp.vintage_intensity > 0
    /\ dsp.vintage_intensity < Scale
    /\ dsp_audio # <<>>
    /\ dsp_result.err = ""
    /\ FullyProcessed(dsp, dsp_audio, dsp_noise, uint8_wraps).err = ""

\* C11: whenever 0 < intensity < 1, process returns intensity * V +
\* (1 - intensity) * X for its input X and the fully processed signal V,
\* whatever the advanced flags are.
C11_BlendsWithProcessInput ==
    BlendedCall =>
        LET V == FullyProcessed(dsp, dsp_audio, dsp_noise, uint8_wraps).x
        IN  /\ Len(dsp_result.x) = Len(dsp_audio)
            /\ \A k \in 1..Len(dsp_audio) :
                   Abs(dsp_result.x[k] - Blend(dsp, V, dsp_audio)[k]) <= Tolerance

\* the stage of the spec's list a method implements
StageRole(name) ==
    CASE name \in {"_simulate_analog_frontend", "_simulate_analog_frontend_enhanced"} ->
             "analog frontend"
      [] name = "_apply_vintage_antialiasing" -> "anti-aliasing low-pass"
      [] name \in {"_apply_bit_crushing", "_apply_enhanced_bit_crushing"} ->
             "bit-depth quantization"
      [] name \in {"_apply_frequency_response_shaping",
                   "_apply_frequency_response_shaping_enhanced"} ->
             "frequency-response shaping"
      [] name \in {"_apply_vintage_compression", "_apply_vintage_compression_enhanced"} ->
             "dynamic-range compression"
      [] name = "_apply_output_stage_processing" -> "output-stage shaping"
      [] OTHER -> "none"

\* process ran its chain on a non-empty buffer and returned
ChainRan ==
    /\ dsp_call = "process"
    /\ dsp_audio # <<>>
    /\ dsp_result.err = ""
    /\ dsp.kind = "EnhancedVintageDSP" => RunsVintageChain(dsp)

\* C12: in every run of either chain bit-depth quantization comes before
\* frequency-response shaping, no stage outside the spec's list of six runs
\* between them, and output-stage shaping is the last stage applied.
C12_FixedStageOrder ==
    ChainRan =>
        /\ \A q, s \in 1..Len(dsp_stages) :
               (/\ StageRole(dsp_stages[q]) = "bit-depth quantization"
                /\ StageRole(dsp_stages[s]) = "frequency-response shaping")
               => /\ q < s
                  /\ \A k \in (q + 1)..(s - 1) : StageRole(dsp_stages[k]) # "none"
        /\ dsp_stages # <<>>
        /\ StageRole(dsp_stages[Len(dsp_stages)]) = "output-stage shaping"

\* a stage of the chain, or process as a whole, was called
StageOrProcessCalled == dsp_call \in VintageStages \cup EnhancedStages \cup {"process"}

\* C13: every stage of the chain, the noise-reduction and temporal-smoothing
\* stages and the synthesizer's smoothing included, and process as a whole,
\* returns a buffer as long as the one it was given, for every length.
C13_StagesKeepLength ==
    /\ StageOrProcessCalled =>
           dsp_result.err = "" /\ Len(dsp_result.x) = Len(dsp_audio)
    /\ syn_call \in {"_apply_vintage_processing", "synthesize"} =>
           syn_audio_len = syn_buffer_len

\* an entry point of the chain was called
EntryPointCalled ==
    \/ dsp_call \in {"process", "apply_sound_blaster_characteristics"}
    \/ StartsWith(dsp_call, "apply_preset_vintage_effect")

\* C14: a stage or an entry point of the chain given an empty buffer or a
\* buffer of one sample returns that buffer unchanged and raises nothing.
C14_ShortBuffersUnchanged ==
    ((StageOrProcessCalled \/ EntryPointCalled) /\ Len(dsp_audio) <= 1)
    => dsp_result = Ok(dsp_audio)

\* _apply_enhanced_bit_crushing quantized a buffer, the random draws at 0
CrushedWithoutNoise ==
    /\ dsp_call = "_apply_enhanced_bit_crushing"
    /\ dsp_noise = 0
    /\ dsp_result.err = ""
    /\ ~(dsp.bit_depth >= 16 /\ dsp.vintage_intensity < (3 * Scale) \div 10)

\* the buffer quantized to the grid of the given bit depth
QuantizedAt(bits, audio) ==
    LET quantized == Quantize(audio, Pow2(bits - 1) - 1)
    IN  [k \in 1..Len(audio) |-> Clip(quantized[k], -Scale, Scale)]

\* b + (16 - b) * (1 - intensity), truncated
C15_BitsTowards16(self) ==
    self.bit_depth + ((16 - self.bit_depth) * (Scale - self.vintage_intensity)) \div Scale

\* C15 as stated: at every configured depth b the samples are quantized to
\* b + (16 - b) * (1 - intensity) bits, truncated.
C15_InterpolatesTo16 ==
    CrushedWithoutNoise =>
        dsp_result.x = QuantizedAt(C15_BitsTowards16(dsp), dsp_audio)

\* b + (max_bits - b) * (1 - intensity), truncated, max_bits being 16 above
\* 8 bits and b itself at 8 bits
C15_BitsTowardsMax(self) ==
    LET max_bits == IF self.bit_depth > 8 THEN 16 ELSE self.bit_depth
    IN  self.bit_depth
        + ((max_bits - self.bit_depth) * (Scale - self.vintage_intensity)) \div Scale

\* C15, amended: the samples are quantized to b + (max_bits - b) *
\* (1 - intensity) bits, truncated, with max_bits = 16 for b > 8 and
\* max_bits = b for b = 8; the depth equals b at intensity 1, lies in [b, 16]
\* and does not decrease when the intensity decreases.
C15_InterpolatesAbove8Bits ==
    CrushedWithoutNoise =>
        /\ dsp_result.x = QuantizedAt(C15_BitsTowardsMax(dsp), dsp_audio)
        /\ EffectiveBits(dsp) \in dsp.bit_depth..16
        /\ dsp.vintage_intensity = Scale => EffectiveBits(dsp) = dsp.bit_depth
        /\ dsp.bit_depth = 8 => EffectiveBits(dsp) = 8
        /\ \A i \in Intensities :
               i <= dsp.vintage_intensity =>
                   EffectiveBits([dsp EXCEPT !.vintage_intensity = i])
                       >= EffectiveBits(dsp)

\* an 8-bit object at half intensity quantized 0.5 to 64 / 127, the 8-bit grid
C15_Witness ==
    /\ CrushedWithoutNoise
    /\ dsp.bit_depth = 8
    /\ dsp.vintage_intensity = (5 * Scale) \div 10
    /\ dsp_audio = <<Scale \div 2>>
    /\ dsp_result.x = <<RoundDiv(64 * Scale, 127)>>

\* the shaping stage of the intensity-scalable chain filtered a buffer at
\* intensity 1.0
ShapedAtFullIntensity ==
    /\ dsp_call = "_apply_frequency_response_shaping_enhanced"
    /\ dsp.vintage_intensity = Scale
    /\ Len(dsp_audio) > 1

\* C16 as stated: at intensity 1.0 the low-pass of the shaping stage is run
\* with a cutoff of 8000 Hz.
C16_CutoffIs8000 ==
    ShapedAtFullIntensity => dsp_result = ShapeAt(dsp, dsp_audio, 8000)

\* C16, amended: at intensity 1.0 the low-pass of the shaping stage is run
\* with a cutoff of 8000 * (1 - 0.3) = 5600 Hz.
C16_CutoffIs5600 ==
    ShapedAtFullIntensity => dsp_result = ShapeAt(dsp, dsp_audio, 5600)

\* the stage filtered two samples at 22050 Hz, and at 8000 Hz the result
\* would have been another
C16_Witness ==
    /\ ShapedAtFullIntensity
    /\ dsp.sample_rate = 22050
    /\ dsp_audio = <<Scale, -Scale>>
    /\ dsp_result.err = ""
    /\ dsp_result # ShapeAt(dsp, dsp_audio, 8000)

(***************************************************************************)
(* C17: the chain and the synthesizer hold no cross-call state.  A step    *)
(* that is a call of process leaves every field of the DSP object as it    *)
(* was, a step that is a call of synthesize leaves the sample rate and the *)
(* duration and formant tables as they were, and the diphones and segment  *)
(* lengths synthesize produced are those a newly constructed synthesizer   *)
(* of the same sample rate produces for the utterance, whatever was        *)
(* processed before.                                                       *)
(***************************************************************************)
FreshSegments(rate, phonemes) ==
    IF phonemes = <<>> THEN <<>>
    ELSE SynthSegments(DiphoneSynthesizer(rate).phoneme_durations, phonemes, rate)

Target(p, f) == DictGet(syn_formant_frequencies, p, DefaultFormants)[f]

Between(x, a, b) == (a <= x /\ x <= b) \/ (b <= x /\ x <= a)

ContourFollowsTargets(c, n, start, end) ==
    /\ n >= 2
    /\ Len(c) = n
    /\ c[1] = start
    /\ c[n] = end
    /\ \A k \in 1..n : Between(c[k], start, end)
    /\ \A k \in 1..(n - 1) : Between(c[k + 1], c[k], end)
    /\ start = end => \A k \in 1..n : c[k] = start

C18_ContoursFollowTargets ==
    syn_call = "_synthesize_diphone" =>
        \A f \in FormantKeys :
            ContourFollowsTargets(syn_contours[f], syn_segments[1].n,
                                  Target(syn_segments[1].start, f),
                                  Target(syn_segments[1].end, f))

\* the diphone AE-N was synthesized: F1 falls from 660 Hz to 250 Hz through
\* values strictly between
C18_Witness ==
    /\ syn_call = "_synthesize_diphone"
    /\ syn_diphones = <<"AE-N">>
    /\ Len(syn_contours["F1"]) = syn_segments[1].n
    /\ syn_contours["F1"][1] = 66000
    /\ syn_contours["F1"][syn_segments[1].n] = 25000
    /\ \E k \in 2..(syn_segments[1].n - 1) :
          25000 < syn_contours["F1"][k] /\ syn_contours["F1"][k] < 66000

(***************************************************************************)
(* C19: empty input is not an error anywhere in the pipeline.              *)
(* synthesize([]) returns a buffer of length 0 with no segment             *)
(* synthesized; process of either chain returns the empty buffer it was    *)
(* given; play of either output class on a buffer of length 0 hands        *)
(* nothing to sd.play, starts no thread, does not fall back to the         *)
(* failure notification and leaves the object and its threads as they      *)
(* were.                                                                   *)
(***************************************************************************)
EmptyPlay(call) == call.name = "play" /\ call.audio.n = 0

C19_EmptyInputIsNoError ==
    /\ [](syn_call = "synthesize" /\ syn_phonemes = <<>> =>
             syn_audio_len = 0 /\ syn_segments = <<>>)
    /\ [](dsp_call = "process" /\ dsp_audio = <<>> => dsp_result = Ok(<<>>))
    /\ [](EmptyPlay(out_call) =>
             /\ out_ret.sd_play = <<>>
             /\ ~out_ret.thread_started
             /\ ~out_ret.fallback)
    /\ [][EmptyPlay(out_call') => out' = out /\ out_workers' = out_workers]_vars

\* synthesize, the enhanced chain and the enhanced output have each been
\* called on empty input, the output while a worker thread was alive
C19_Witness ==
    /\ syn_call = "synthesize" /\ syn_phonemes = <<>>
    /\ dsp_call = "process" /\ dsp_audio = <<>>
    /\ dsp.kind = "EnhancedVintageDSP"
    /\ EmptyPlay(out_call)
    /\ out.kind = "EnhancedAudioOutput"
    /\ out_workers # <<>>

(***************************************************************************)
(* C20: for a non-empty buffer of n samples _apply_enhanced_processing     *)
(* returns n + int(start_silence_ms * sample_rate / 1000)                  *)
(* + int(end_silence_ms * sample_rate / 1000) samples, analyze_audio_timing*)
(* reports enhanced_samples - original_samples equal to that padding, and  *)
(* the fade-in and fade-out regions are each at most a quarter of the      *)
(* padded length and do not overlap.                                       *)
(***************************************************************************)
StatedPadding ==
    (out.padding_config.start_silence_ms * out.sample_rate) \div 1000
    + (out.padding_config.end_silence_ms * out.sample_rate) \div 1000

C20_PaddedLengthAndFades ==
    /\ (out_call.name = "_apply_enhanced_processing" /\ out_call.audio.n > 0) =>
          /\ out_ret.audio.n = out_call.audio.n + StatedPadding
          /\ out_ret.padded.n = out_ret.audio.n
          /\ 4 * out_ret.fade_in_samples <= out_ret.padded.n
          /\ 4 * out_ret.fade_out_samples <= out_ret.padded.n
          /\ out_ret.fade_in_samples <= out_ret.padded.n - out_ret.fade_out_samples
    /\ (out_call.name = "analyze_audio_timing" /\ out_call.audio.n > 0) =>
          /\ out_ret.original_samples = out_call.audio.n
          /\ out_ret.enhanced_samples - out_ret.original_samples = StatedPadding

\* a buffer was padded with silence of a length that is not a whole number
\* of samples, and its fades were cut to a quarter of the padded length
C20_Witness ==
    /\ out_call.name = "_apply_enhanced_processing"
    /\ out_call.audio.n > 1
    /\ (out.padding_config.start_silence_ms * out.sample_rate) % 1000 # 0
    /\ out_ret.audio.n > out_call.audio.n
    /\ out_ret.fade_in_samples > 0
    /\ out_ret.fade_in_samples
          < (out.padding_config.fade_in_ms * out.sample_rate) \div 1000


(***************************************************************************)
(* C22 - C24: play, stop and the playback threads.                         *)
(***************************************************************************)
\* a thread that has set the playing flag and waits on the stop event
Active == {i \in 1..Len(out_workers) : out_workers[i].pos = "playing"}

\* a thread that still plays or will: one not yet scheduled, which sets the
\* flag and calls sd.play when it runs, or one waiting on an event not set
StillRunning(w) == w.pos = "started" \/ ~out.stop_event

\* C22: once stop() has returned, is_playing() is false and no thread started
\* by a preceding non-blocking play is still running or sets the flag later
C22_StopStopsPlayback ==
    out_call.name = "stop" =>
        /\ ~out.is_playing
        /\ \A i \in 1..Len(out_workers) : ~StillRunning(out_workers[i])

\* C23: at most one playback thread is active at any time, and is_playing()
\* is true whenever one is
C23_AtMostOneWorker ==
    /\ Cardinality(Active) <= 1
    /\ Active # {} => out.is_playing

\* no thread is left and is_playing() is false
Quiescent == out_workers = <<>> /\ ~out.is_playing

\* a step of play, stop or the constructor
CallStep ==
    \/ NewAudioOutput(22050, 1)
    \/ \E audio_data \in {Shape(0, 0), Shape(7, 0), Shape(7, 2)},
          blocking \in BOOLEAN, device_ok \in BOOLEAN :
            Play(audio_data, blocking, device_ok)
    \/ \E device_ok \in BOOLEAN : Stop(device_ok)

\* C24: when the calls of play and stop have come to an end, the threads,
\* scheduled fairly, all exit and is_playing() becomes and stays false
C24_WorkersTerminate == (<>[][~CallStep]_vars) => <>[]Quiescent

\* two threads alive at once, one of them playing
C24_Witness ==
    /\ Len(out_workers) = 2
    /\ Active # {}
    /\ out.is_playing


(***************************************************************************)
(* C29: the cutoff of the shaping stage against intensity and Nyquist.     *)
(***************************************************************************)
\* the object after update_config with another intensity
AtIntensity(self, intensity) ==
    update_config(self, [vintage_processing |-> [intensity |-> intensity]])

\* C29: at every valid sample rate the cutoff max_frequency * (1 - 0.3 *
\* intensity) never exceeds sample_rate / 2 and does not increase when the
\* intensity grows over (0, 1]
C29_CutoffMonotoneBelowNyquist ==
    (dsp.kind = "EnhancedVintageDSP" /\ dsp.vintage_intensity > 0) =>
        /\ 2 * ShapingCutoff(dsp) <= dsp.sample_rate
        /\ \A i \in Intensities :
              i > dsp.vintage_intensity =>
                  ShapingCutoff(AtIntensity(dsp, i)) <= ShapingCutoff(dsp)


(***************************************************************************)
(* C30: symbols without an entry in the tables.                            *)
(***************************************************************************)
\* the formants and amplitudes the claim states for an unknown symbol
StatedDefaults ==
    [F1 |-> 500 * 100, F2 |-> 1500 * 100, F3 |-> 2500 * 100,
     A1 |-> 50, A2 |-> 30, A3 |-> 10]

\* the duration table with an entry of 80 ms for every symbol of the
\* utterance that has none
WithBaseDurations(phoneme_durations, symbols) ==
    [p \in DOMAIN phoneme_durations \cup symbols |->
        IF p \in DOMAIN phoneme_durations THEN phoneme_durations[p] ELSE 80]

\* the symbols of the units a call worked on
SymbolsOf(segments) ==
    {segments[k].start : k \in 1..Len(segments)}
        \cup {segments[k].end : k \in 1..Len(segments)}

\* C30: a symbol without an entry in the tables is no error: the call
\* completes, a diphone touching the symbol starts (ends) at the formants
\* 500, 1500, 2500 Hz and amplitudes 0.5, 0.3, 0.1 on that side, and the
\* lengths are those of a table that gives the symbol 0.08 s
C30_UnknownSymbolDefaults ==
    /\ syn_call = "synthesize" =>
          /\ syn_segments =
                 SynthSegments(WithBaseDurations(syn_phoneme_durations,
                                                 SymbolsOf(syn_segments)),
                               syn_phonemes, syn_sample_rate)
          /\ syn_audio_len = apply_vintage_processing_len(
                 SumSeq([k \in 1..Len(syn_segments) |-> syn_segments[k].n]))
    /\ syn_call = "_synthesize_diphone" =>
          LET segment == syn_segments[1]
              as_if == WithBaseDurations(syn_phoneme_durations,
                                         {segment.start, segment.end})
          IN  /\ segment.n = NumSamples(
                     get_diphone_duration(as_if, segment.start, segment.end),
                     syn_sample_rate)
              /\ syn_audio_len = segment.n
              /\ segment.n > 0 /\ syn_contours # NoContours
              /\ \A f \in FormantKeys :
                    /\ Len(syn_contours[f]) = segment.n
                    /\ segment.start \notin DOMAIN syn_formant_frequencies =>
                           syn_contours[f][1] = StatedDefaults[f]
                    /\ segment.end \notin DOMAIN syn_formant_frequencies =>
                           syn_contours[f][segment.n] = StatedDefaults[f]

\* the diphone from an unknown symbol to N was synthesized at 22050 Hz:
\* 1764 samples, F2 running from 1500 Hz to the 1700 Hz of N
C30_Witness ==
    /\ syn_call = "_synthesize_diphone"
    /\ syn_diphones = <<"XX-N">>
    /\ syn_sample_rate = 22050
    /\ syn_audio_len = 1764
    /\ syn_contours.F2[1] = 150000
    /\ syn_contours.F2[1764] = 170000


(***************************************************************************)
(* C25 - C27: the configuration manager's failures and its preset store.   *)
(***************************************************************************)
\* ConfigManager.get_current_preset
get_current_preset(config) ==
    Get(Get(config, "quality", EmptyDict), "preset", "custom")

\* C25: whenever load_config_file returns False, current_config is exactly
\* what it was before the call
C25_LoadConfigFileAtomic ==
    [][(cm_call' = "load_config_file" /\ cm_ret' = FALSE)
          => cm_current_config' = cm_current_config]_vars

\* C26: when load_preset returns False current_config is unchanged, and when
\* it returns True get_current_preset() is the name of the preset loaded
C26_LoadPresetAtomic ==
    [][\A preset_name \in {"authentic_1986", "modern_retro", "missing"} :
          LoadPreset(preset_name) =>
              IF cm_ret' THEN get_current_preset(cm_current_config') = preset_name
              ELSE cm_current_config' = cm_current_config]_vars

\* C27: after any sequence of load_preset and set_config, available_presets
\* is what the constructor loaded
C27_PresetsNeverModified ==
    cm_available_presets \in {EmptyDict, PresetStore}


(***************************************************************************)
(* C28: the DSP object and the synthesizer against the configuration.      *)
(***************************************************************************)
\* the attributes of the DSP object that the configuration determines
ConfiguredFields ==
    {"bit_depth", "sample_rate", "quantization_levels", "dynamic_range",
     "vintage_enabled", "quantization_noise", "analog_simulation",
     "frequency_response_shaping", "spectral_enhancement",
     "harmonic_enrichment", "noise_reduction", "temporal_smoothing"}

RECURSIVE PausesOf(_)
PausesOf(text) ==
    IF text = "" THEN <<>>
    ELSE IF InClass(CharAt(text, 1), ".!?")
    THEN <<"<PAUSE_LONG>">> \o PausesOf(Rest(text, SkipClass(text, ".!?", 1)))
    ELSE IF InClass(CharAt(text, 1), ",;")
    THEN <<"<PAUSE_SHORT>">> \o PausesOf(Rest(text, 2))
    ELSE IF CharAt(text, 1) = ":"
    THEN <<"<PAUSE_MEDIUM>">> \o PausesOf(Rest(text, 2))
    ELSE PausesOf(Rest(text, 2))

\* C21: the words of the string normalize returns that are pause tokens, and
\* the pause markers of the list convert returns, are the markers the
\* punctuation of the raw text stands for, one per run of sentence-ending
\* marks, per comma or semicolon and per colon, in order
C21_PauseMarkersSurvive ==
    /\ text_call # "" =>
          SelectSeq(split(text_normalized), IsPause) = PausesOf(text_input)
    /\ text_call = "convert" =>
          SelectSeq(text_phonemes, IsPause) = PausesOf(text_input)

====
